---- MODULE Spec2Model ----
(***************************************************************************)
(* Driver factory lifecycle of libmodelbox (base/drivers/driver.cc):       *)
(* Driver::CreateFactory, Driver::CloseFactory and the process-wide        *)
(* DriverHandler table, together with the dynamic loader and the plugin    *)
(* entrypoints they call; and the Drivers registry of the same file: its   *)
(* scan of the configured directories in a forked helper, the scan cache,  *)
(* the virtual-driver phase, Clear and the GetDriver query.                *)
(***************************************************************************)
EXTENDS Integers, FiniteSets, Sequences, TLC

\* ------------------------------------------------------------------------
\* Bounds
\* ------------------------------------------------------------------------
\* total number of CreateFactory calls made by callers in one behaviour
MaxCalls == 3
\* size of the heap pool holding DriverHandlerInfo objects
NumEntries == 4

\* ------------------------------------------------------------------------
\* The catalogue: two drivers, backed by the same library file or by two
\* different ones; the loader hands out two addresses as library handles.
\* ------------------------------------------------------------------------
Drivers == {"d1", "d2"}
Libs == {"libA", "libB"}
Addrs == {1, 2}
EntryIds == 1..NumEntries
Symbols == {"DriverInit", "CreateDriverFactory", "DriverFini"}
Null == 0
None == "none"

VARIABLES
  desc,                 \* Driver::desc_: file path and no_delete flag of each driver
  exports,              \* symbols each library file exports
  pc,                   \* position of the operation running under mutex_ of each driver
  factory_count_,       \* Driver::factory_count_
  driver_handler_,      \* Driver::driver_handler_ (library handle or Null)
  factory_,             \* Driver::factory_ (factory object or Null)
  handler_info,         \* local of CreateFactory: the DriverHandlerInfo returned by Add
  driver_handler_info,  \* local of CloseFactory: the DriverHandlerInfo returned by Get
  handles,              \* child_factory handles held by callers: factory -> count
  handler_map,          \* DriverHandler::handler_map: address -> DriverHandlerInfo
  handler_map_lock,     \* DriverHandler::handler_map_lock owner
  info,                 \* heap of DriverHandlerInfo objects
  libAddr,              \* loader: address at which a library is mapped, or Null
  dlRef,                \* loader: dlopen reference count of a library
  libNoDelete,          \* loader: library was opened with RTLD_NODELETE
  plugInit,             \* plugin: successful DriverInit calls since load / last DriverFini
  calls,                \* history: CreateFactory calls per driver
  everSucc,             \* history: some CreateFactory of the driver succeeded
  dlBalance,            \* history: successful dlopen calls minus dlclose calls per driver
  cdfCalls,             \* history: CreateDriverFactory invocations since factory_count_ left 0
  lastHandle,           \* history: last handle dlopen returned to the driver
  initsInInterval,      \* history: successful DriverInit calls since the entry of an address was inserted
  finisInInterval,      \* history: DriverFini invocations since the entry of an address was inserted
  overlapped            \* history: an operation began while another driver was inside one

VARIABLES
  plugin,                       \* what each library file is: its DriverDescription and behaviour
  fs,                           \* filesystem: kind and mtime of every path
  ld_cache,                     \* DEFAULT_LD_CACHE: whether it exists, and its mtime
  scan_info,                    \* DEFAULT_SCAN_INFO, the scan cache file
  config_,                      \* Drivers::config_
  driver_dirs_,                 \* Drivers::driver_dirs_
  drivers_list_,                \* Drivers::drivers_list_
  virtual_driver_manager_list_, \* Drivers::virtual_driver_manager_list_
  last_modify_time_sum_,        \* Drivers::last_modify_time_sum_
  drivers_scan_result_info_,    \* Drivers::drivers_scan_result_info_
  child,                        \* the forked helper running InnerScan on its copy
  rpc,                          \* position of the registry operation in progress
  loop,                         \* locals of the operation in progress
  hist                          \* history of the registry's operations

regVars == <<plugin, fs, ld_cache, scan_info, config_, driver_dirs_, drivers_list_,
             virtual_driver_manager_list_, last_modify_time_sum_,
             drivers_scan_result_info_, child, rpc, loop, hist>>
cfgVars == <<desc, exports>>
drvVars == <<pc, factory_count_, driver_handler_, factory_, handler_info,
             driver_handler_info, handles>>
tabVars == <<handler_map, handler_map_lock, info>>
ldVars == <<libAddr, dlRef, libNoDelete, plugInit>>
histVars == <<calls, everSucc, dlBalance, cdfCalls, lastHandle,
              initsInInterval, finisInInterval, overlapped>>
vars == <<regVars, cfgVars, drvVars, tabVars, ldVars, histVars>>

\* ------------------------------------------------------------------------
\* Helpers
\* ------------------------------------------------------------------------
RECURSIVE SumOver(_, _)
SumOver(f, S) ==
  IF S = {} THEN 0
  ELSE LET x == CHOOSE y \in S : TRUE IN f[x] + SumOver(f, S \ {x})

TotalCalls == SumOver(calls, Drivers)

\* a factory object is named by the number of the call that built it;
\* Null names the empty shared_ptr
FactoryIds == 0..MaxCalls

\* number of child_factory handles of driver d that callers still hold
Outstanding(d) == SumOver(handles[d], FactoryIds)

\* history counters only tell none, one and several apart
Bump(n) == IF n < 2 THEN n + 1 ELSE n

GetDriverFile(d) == desc[d].file_path
GetNoDelete(d) == desc[d].no_delete
GetGlobal(d) == FALSE
GetDeepBind(d) == FALSE

\* a freshly constructed DriverHandlerInfo
NewHandlerInfo ==
  [handler_count_ |-> 0, initialize_count_ |-> 0, initialize_lock_ |-> None]

\* std::make_shared<DriverHandlerInfo>(): an object nobody refers to
FreeEntries ==
  {e \in EntryIds :
     /\ \A a \in Addrs : handler_map[a] # e
     /\ \A d \in Drivers : handler_info[d] # e /\ driver_handler_info[d] # e}

MakeShared == CHOOSE e \in FreeEntries : \A o \in FreeEntries : e <= o

\* shared_ptr release: objects no map slot and no local refers to are destroyed
Destroy(inf, map, hi, dhi) ==
  [e \in EntryIds |->
     IF \/ \E a \in Addrs : map[a] = e
        \/ \E d \in Drivers : hi[d] = e \/ dhi[d] = e
     THEN inf[e] ELSE NewHandlerInfo]

\* ------------------------------------------------------------------------
\* The registry's world: the paths the configuration can name, the plugin
\* files found there and what each of them describes
\* ------------------------------------------------------------------------
\* Scan() calls made on the registry in one behaviour
MaxScans == 2
\* changes made to the filesystem in one behaviour
MaxEdits == 2
\* calls of Clear
MaxClears == 2
\* factory handles the callers hold at one time
MaxHeld == 1
\* longest drivers_list_ a query is made on
MaxLen == 3
\* longest string given to SetVersion
MaxVersionLen == 5
\* SetVersion calls made on one descriptor
MaxSets == 2

DRIVER_CLASS_VIRTUAL == "virtual"

\* files matching the glob libmodelbox-*.so*: the two libraries, a file the
\* loader rejects, a library without DriverDescription, a symbolic link and
\* a file that is not there at first
Files == Libs \cup {"bad", "nodesc", "link", "new"}
\* an existing directory holding the files, an empty one, a missing one
Directories == {"dirA", "dirE", "dirM"}
Paths == Files \cup Directories
MTimes == {1, 2}

\* the entries of each directory, in the order ListFiles returns them
Layout ==
  [p \in Paths |->
     IF p = "dirA" THEN <<"bad", "libA", "link", "libB", "nodesc", "new">>
     ELSE <<>>]

\* what the plugin entrypoints of a library do
Faults == {"none", "dlopen", "noinit", "init", "nocreate", "create", "nofini",
           "notmanager"}

Plain(version, description) ==
  [class |-> "cpu", type |-> "x", name |-> "foo", version |-> version,
   description |-> description, no_delete |-> FALSE, fault |-> "none"]

Virtual(fault, no_delete) ==
  [class |-> DRIVER_CLASS_VIRTUAL, type |-> "y", name |-> "manager",
   version |-> "1.0.0", description |-> "m", no_delete |-> no_delete,
   fault |-> fault]

\* the libraries considered: libA and libB are plain drivers of the same
\* class, type and name, differing in nothing, in the version or in the
\* description; or libA is a virtual-class plugin with any behaviour
Worlds ==
  {w \in [Libs -> {Plain(v, t) : v \in {"2.0.0", "10.0.0"}, t \in {"d", "e"}}
                    \cup {Virtual(f, n) : f \in Faults, n \in BOOLEAN}] :
     /\ w["libA"].description # "e"
     /\ w["libA"].no_delete => w["libA"].fault \in {"none", "init"}
     /\ w["libB"].class = "cpu"
     /\ w["libB"].description = "e" => w["libB"].version = "2.0.0"
     /\ w["libA"].class = DRIVER_CLASS_VIRTUAL => w["libB"] = Plain("2.0.0", "d")}

\* symbols a library exports, given its behaviour
ExportsOf(k) ==
  Symbols \ (IF k.fault = "noinit" THEN {"DriverInit"}
             ELSE IF k.fault = "nocreate" THEN {"CreateDriverFactory"}
             ELSE IF k.fault = "nofini" THEN {"DriverFini"}
             ELSE {})

\* the sub-drivers a VirtualDriverManager produces when it scans: one of
\* them is of class virtual itself
SubDrivers ==
  <<[class |-> "cpu", type |-> "x", name |-> "sub1", version |-> "1.0.0",
     description |-> "s", file_path |-> "", no_delete |-> FALSE,
     is_virtual |-> TRUE, obj |-> None],
    [class |-> DRIVER_CLASS_VIRTUAL, type |-> "x", name |-> "sub2", version |-> "1.0.0",
     description |-> "s", file_path |-> "", no_delete |-> FALSE,
     is_virtual |-> TRUE, obj |-> None]>>

\* the configurations given to Initialize: driver.dir and driver.skip-default
\* (null marks the empty shared_ptr)
NoConfig == [dirs |-> <<>>, skip_default |-> FALSE, null |-> TRUE]
Configurations ==
  {[dirs |-> <<>>, skip_default |-> TRUE, null |-> FALSE],
   [dirs |-> <<"dirA">>, skip_default |-> FALSE, null |-> FALSE],
   [dirs |-> <<"dirA">>, skip_default |-> TRUE, null |-> FALSE],
   [dirs |-> <<"dirM", "dirA">>, skip_default |-> TRUE, null |-> FALSE],
   [dirs |-> <<"dirA", "libB">>, skip_default |-> TRUE, null |-> FALSE],
   NoConfig}
MODELBOX_DEFAULT_DRIVER_PATH == "dirE"

\* a std::map from path to error message without entries
NoFailed == [p \in Paths |-> ""]

NoChild ==
  [alive |-> FALSE, drivers_list_ |-> <<>>, last_modify_time_sum_ |-> 0,
   success |-> <<>>, failed |-> NoFailed, dir |-> 0, files |-> <<>>]

NoLoop == [todo |-> <<>>, obj |-> None, base |-> 0, out |-> 0]

\* nothing recorded yet
NoHist ==
  [scans |-> 0, done |-> 0, walks |-> 0, edits |-> 0, succ |-> 0,
   succWalks |-> 0, walked |-> FALSE, status |-> "",
   add |-> [valid |-> FALSE, file |-> "", before |-> <<>>, status |-> "",
            after |-> <<>>, opened |-> 0, closed |-> 0],
   processed |-> <<>>,
   walk |-> [valid |-> FALSE, success |-> <<>>, failed |-> NoFailed,
             written |-> <<>>, fs |-> <<>>, dirs |-> <<>>],
   roundtrip |-> [valid |-> FALSE, read |-> <<>>],
   first |-> [valid |-> FALSE, list |-> <<>>, managers |-> 0, config |-> <<>>],
   cleared |-> FALSE, clears |-> 0, created |-> {},
   pass |-> <<>>, asked |-> <<>>,
   query |-> [valid |-> FALSE, class |-> "", type |-> "", name |-> "",
              version |-> "", result |-> 0],
   version |-> [valid |-> FALSE, driver_version_ |-> <<>>, before |-> <<>>,
                arg |-> <<>>, status |-> "", sets |-> 0]]

\* a registry as Drivers::GetInstance first builds it
RegistryFresh ==
  /\ config_ = NoConfig
  /\ driver_dirs_ = <<>>
  /\ drivers_list_ = <<>>
  /\ virtual_driver_manager_list_ = <<>>
  /\ last_modify_time_sum_ = 0
  /\ drivers_scan_result_info_ = [success |-> <<>>, failed |-> NoFailed]
  /\ child = NoChild
  /\ rpc = "idle"
  /\ loop = NoLoop
  /\ hist = NoHist

\* the filesystem before any change: every file is there but new
FsInitial ==
  [p \in Paths |->
     [kind |-> IF p \in {"dirM", "new"} THEN "absent"
               ELSE IF p \in Directories THEN "dir"
               ELSE IF p = "link" THEN "link" ELSE "file",
      mtime |-> 1]]

NoScanInfo ==
  [exists |-> FALSE, writable |-> TRUE, ld_cache_time |-> 0, check_code |-> <<>>,
   scan_drivers |-> <<>>]

\* The catalogues considered: d1 is backed by libA; d2 by libA too or by
\* libB; no_delete comes from the library's DriverDescription, so drivers of
\* one file agree on it; with two files libA is the unloadable one and
\* libB is either; at most libA lacks one of the optional or
\* activation-time symbols.
Catalogues ==
  {c \in [Drivers -> [file_path : Libs, no_delete : BOOLEAN]] :
     /\ c["d1"].file_path = "libA"
     /\ IF c["d1"].file_path = c["d2"].file_path
        THEN c["d1"].no_delete = c["d2"].no_delete
        ELSE ~c["d1"].no_delete}

ExportSets ==
  {x \in [Libs -> SUBSET Symbols] :
     /\ Cardinality(x["libA"]) >= 2
     /\ x["libB"] = Symbols}

\* the drivers, the handle table and the loader before any call
DriverFresh ==
  /\ pc = [d \in Drivers |-> "idle"]
  /\ factory_count_ = [d \in Drivers |-> 0]
  /\ driver_handler_ = [d \in Drivers |-> Null]
  /\ factory_ = [d \in Drivers |-> Null]
  /\ handler_info = [d \in Drivers |-> Null]
  /\ driver_handler_info = [d \in Drivers |-> Null]
  /\ handles = [d \in Drivers |-> [f \in FactoryIds |-> 0]]
  /\ handler_map = [a \in Addrs |-> Null]
  /\ handler_map_lock = None
  /\ info = [e \in EntryIds |-> NewHandlerInfo]
  /\ libAddr = [l \in Libs |-> Null]
  /\ dlRef = [l \in Libs |-> 0]
  /\ libNoDelete = [l \in Libs |-> FALSE]
  /\ plugInit = [l \in Libs |-> 0]
  /\ calls = [d \in Drivers |-> 0]
  /\ everSucc = [d \in Drivers |-> FALSE]
  /\ dlBalance = [d \in Drivers |-> 0]
  /\ cdfCalls = [d \in Drivers |-> 0]
  /\ lastHandle = [d \in Drivers |-> Null]
  /\ initsInInterval = [a \in Addrs |-> 0]
  /\ finisInInterval = [a \in Addrs |-> 0]
  /\ overlapped = FALSE

\* the drivers of a catalogue, on a registry that is not used
Init ==
  /\ desc \in Catalogues
  /\ exports \in ExportSets
  /\ DriverFresh
  /\ plugin = [l \in Libs |-> Plain("2.0.0", "d")]
  /\ fs = FsInitial
  /\ ld_cache = [exists |-> TRUE, mtime |-> 1]
  /\ scan_info = NoScanInfo
  /\ RegistryFresh

\* ------------------------------------------------------------------------
\* The dynamic loader
\* ------------------------------------------------------------------------
GetMode(no_delete, global, deep_bind) ==
  {"RTLD_NOW"}
    \cup (IF no_delete THEN {"RTLD_NODELETE"} ELSE {})
    \cup (IF deep_bind THEN {"RTLD_DEEPBIND"} ELSE {})
    \cup (IF global THEN {"RTLD_GLOBAL"} ELSE {"RTLD_LOCAL"})

\* addresses dlopen may return for library l: the address it is mapped at,
\* or any address no other mapped library occupies
DlopenAddrs(l) ==
  IF libAddr[l] # Null THEN {libAddr[l]}
  ELSE Addrs \ {libAddr[o] : o \in Libs}

\* dlclose unmaps the library when the last reference goes, unless it was
\* opened with RTLD_NODELETE; unmapping discards the plugin's state
Unmapped(l) == dlRef[l] = 1 /\ ~libNoDelete[l]

\* dlsym
Dlsym(d, symbol) == symbol \in exports[GetDriverFile(d)]

\* ------------------------------------------------------------------------
\* DriverHandler (the process-wide handle table)
\* ------------------------------------------------------------------------
Get(driver_handler) == handler_map[driver_handler]

IncHanderRefcnt(inf, e) == [inf EXCEPT ![e].handler_count_ = @ + 1]

DecHanderRefcnt(inf, e) == [inf EXCEPT ![e].handler_count_ = @ - 1]

\* DriverHandler::Add: the entry it returns, the map and the heap after it
AddEntry(driver_handler) ==
  IF Get(driver_handler) = Null THEN MakeShared ELSE Get(driver_handler)

AddMap(driver_handler) ==
  IF Get(driver_handler) = Null
  THEN [handler_map EXCEPT ![driver_handler] = MakeShared]
  ELSE handler_map

AddInfo(driver_handler) ==
  IF Get(driver_handler) = Null
  THEN IncHanderRefcnt([info EXCEPT ![MakeShared] = NewHandlerInfo], MakeShared)
  ELSE IncHanderRefcnt(info, Get(driver_handler))

\* DriverHandler::Remove: the heap and the map after it
RemoveInfo(driver_handler) == DecHanderRefcnt(info, Get(driver_handler))

\* Remove as it would be erasing the entry whatever its handler_count_
RemoveMap_AlwaysErases(driver_handler) ==
  [handler_map EXCEPT ![driver_handler] = Null]

RemoveMap(driver_handler) ==
  IF RemoveInfo(driver_handler)[Get(driver_handler)].handler_count_ = 0
  THEN [handler_map EXCEPT ![driver_handler] = Null]
  ELSE handler_map

\* CloseFactory as it would be with line 58 testing `>= 0`: the last
\* release returns before the cleanup
CloseFactoryEnter_ReturnsAtZero(d, count, fac) ==
  /\ factory_count_' = [factory_count_ EXCEPT ![d] = count - 1]
  /\ IF count - 1 >= 0
     THEN /\ factory_' = [factory_ EXCEPT ![d] = fac]
          /\ pc' = [pc EXCEPT ![d] = "idle"]
     ELSE IF driver_handler_[d] = Null
          THEN /\ factory_' = [factory_ EXCEPT ![d] = Null]
               /\ pc' = [pc EXCEPT ![d] = "idle"]
          ELSE /\ factory_' = [factory_ EXCEPT ![d] = fac]
               /\ pc' = [pc EXCEPT ![d] = "cl_maplock"]

\* ------------------------------------------------------------------------
\* Driver::CloseFactory, lines 58-65: what a call leaves in factory_count_,
\* factory_ and pc when it is entered with the count at `count` and the
\* factory slot holding `fac`.  It returns at once or goes on to line 67.
\* ------------------------------------------------------------------------
CloseFactoryEnter(d, count, fac) ==
  /\ factory_count_' = [factory_count_ EXCEPT ![d] = count - 1]
  /\ IF count - 1 > 0
     THEN /\ factory_' = [factory_ EXCEPT ![d] = fac]
          /\ pc' = [pc EXCEPT ![d] = "idle"]
     ELSE IF driver_handler_[d] = Null
          THEN /\ factory_' = [factory_ EXCEPT ![d] = Null]
               /\ pc' = [pc EXCEPT ![d] = "idle"]
          ELSE /\ factory_' = [factory_ EXCEPT ![d] = fac]
               /\ pc' = [pc EXCEPT ![d] = "cl_maplock"]

\* ------------------------------------------------------------------------
\* Driver::CreateFactory
\* ------------------------------------------------------------------------
\* CreateFactory as it would be if the reference taken at line 154 were
\* not kept for a factory that exists already
CF_Share_NoCount(d) ==
  /\ pc[d] = "idle"
  /\ overlapped' = (overlapped \/ \E e \in Drivers \ {d} : pc[e] # "idle")
  /\ TotalCalls < MaxCalls
  /\ factory_count_[d] + 1 # 1
  /\ calls' = [calls EXCEPT ![d] = @ + 1]
  /\ UNCHANGED factory_count_
  /\ handles' = [handles EXCEPT ![d][factory_[d]] = @ + 1]
  /\ everSucc' = [everSucc EXCEPT ![d] = TRUE]
  /\ UNCHANGED <<pc, driver_handler_, factory_, handler_info, driver_handler_info>>
  /\ UNCHANGED <<regVars, cfgVars, tabVars, ldVars>>
  /\ UNCHANGED <<dlBalance, cdfCalls, lastHandle, initsInInterval, finisInInterval>>

\* lines 153-154 and 243-249: the factory exists already, one more
\* child_factory handle on it is returned
CF_Share(d) ==
  /\ pc[d] = "idle"
  /\ overlapped' = (overlapped \/ \E e \in Drivers \ {d} : pc[e] # "idle")
  /\ TotalCalls < MaxCalls
  /\ factory_count_[d] + 1 # 1
  /\ calls' = [calls EXCEPT ![d] = @ + 1]
  /\ factory_count_' = [factory_count_ EXCEPT ![d] = @ + 1]
  /\ handles' = [handles EXCEPT ![d][factory_[d]] = @ + 1]
  /\ everSucc' = [everSucc EXCEPT ![d] = TRUE]
  /\ UNCHANGED <<pc, driver_handler_, factory_, handler_info, driver_handler_info>>
  /\ UNCHANGED <<regVars, cfgVars, tabVars, ldVars>>
  /\ UNCHANGED <<dlBalance, cdfCalls, lastHandle, initsInInterval, finisInInterval>>

\* lines 153-166: first reference, dlopen returns a handle
CF_DlopenOk(d) ==
  /\ pc[d] = "idle"
  /\ overlapped' = (overlapped \/ \E e \in Drivers \ {d} : pc[e] # "idle")
  /\ TotalCalls < MaxCalls
  /\ factory_count_[d] + 1 = 1
  /\ calls' = [calls EXCEPT ![d] = @ + 1]
  /\ factory_count_' = [factory_count_ EXCEPT ![d] = @ + 1]
  /\ cdfCalls' = [cdfCalls EXCEPT ![d] = 0]
  /\ \E a \in DlopenAddrs(GetDriverFile(d)) :
       /\ driver_handler_' = [driver_handler_ EXCEPT ![d] = a]
       /\ libAddr' = [libAddr EXCEPT ![GetDriverFile(d)] = a]
       /\ lastHandle' = [lastHandle EXCEPT ![d] = a]
  /\ dlRef' = [dlRef EXCEPT ![GetDriverFile(d)] = @ + 1]
  /\ libNoDelete' = [libNoDelete EXCEPT ![GetDriverFile(d)] =
        @ \/ "RTLD_NODELETE" \in
               GetMode(GetNoDelete(d), GetGlobal(d), GetDeepBind(d))]
  /\ dlBalance' = [dlBalance EXCEPT ![d] = @ + 1]
  /\ pc' = [pc EXCEPT ![d] = "cf_maplock"]
  /\ UNCHANGED <<factory_, handler_info, driver_handler_info, handles>>
  /\ UNCHANGED <<regVars, cfgVars, tabVars, plugInit>>
  /\ UNCHANGED <<everSucc, initsInInterval, finisInInterval>>

\* lines 153-177: first reference, dlopen returns nullptr and CloseFactory
\* is called
CF_DlopenFail(d) ==
  /\ pc[d] = "idle"
  /\ overlapped' = (overlapped \/ \E e \in Drivers \ {d} : pc[e] # "idle")
  /\ TotalCalls < MaxCalls
  /\ factory_count_[d] + 1 = 1
  /\ calls' = [calls EXCEPT ![d] = @ + 1]
  /\ cdfCalls' = [cdfCalls EXCEPT ![d] = 0]
  /\ driver_handler_[d] = Null
  /\ CloseFactoryEnter(d, factory_count_[d] + 1, factory_[d])
  /\ UNCHANGED <<driver_handler_, handler_info, driver_handler_info, handles>>
  /\ UNCHANGED <<regVars, cfgVars, tabVars, ldVars>>
  /\ UNCHANGED <<everSucc, dlBalance, lastHandle, initsInInterval, finisInInterval>>

\* line 179
CF_MapLock(d) ==
  /\ pc[d] = "cf_maplock"
  /\ handler_map_lock = None
  /\ handler_map_lock' = d
  /\ pc' = [pc EXCEPT ![d] = "cf_add"]
  /\ UNCHANGED <<factory_count_, driver_handler_, factory_, handler_info,
                 driver_handler_info, handles>>
  /\ UNCHANGED <<regVars, cfgVars, handler_map, info, ldVars, histVars>>

\* CreateFactory as it would be without the unlock of line 181
CF_Add_KeepsLock(d) ==
  /\ pc[d] = "cf_add"
  /\ handler_info' = [handler_info EXCEPT ![d] = AddEntry(driver_handler_[d])]
  /\ handler_map' = AddMap(driver_handler_[d])
  /\ info' = AddInfo(driver_handler_[d])
  /\ IF Get(driver_handler_[d]) = Null
     THEN /\ initsInInterval' = [initsInInterval EXCEPT ![driver_handler_[d]] = 0]
          /\ finisInInterval' = [finisInInterval EXCEPT ![driver_handler_[d]] = 0]
     ELSE UNCHANGED <<initsInInterval, finisInInterval>>
  /\ pc' = [pc EXCEPT ![d] = "cf_initlock"]
  /\ UNCHANGED <<factory_count_, driver_handler_, factory_, driver_handler_info, handles>>
  /\ UNCHANGED <<regVars, cfgVars, ldVars, calls, everSucc, dlBalance, cdfCalls, lastHandle, overlapped, handler_map_lock>>

\* lines 180-181
CF_Add(d) ==
  /\ pc[d] = "cf_add"
  /\ handler_info' = [handler_info EXCEPT ![d] = AddEntry(driver_handler_[d])]
  /\ handler_map' = AddMap(driver_handler_[d])
  /\ info' = AddInfo(driver_handler_[d])
  /\ IF Get(driver_handler_[d]) = Null
     THEN /\ initsInInterval' = [initsInInterval EXCEPT ![driver_handler_[d]] = 0]
          /\ finisInInterval' = [finisInInterval EXCEPT ![driver_handler_[d]] = 0]
     ELSE UNCHANGED <<initsInInterval, finisInInterval>>
  /\ handler_map_lock' = None
  /\ pc' = [pc EXCEPT ![d] = "cf_initlock"]
  /\ UNCHANGED <<factory_count_, driver_handler_, factory_, driver_handler_info, handles>>
  /\ UNCHANGED <<regVars, cfgVars, ldVars, calls, everSucc, dlBalance, cdfCalls, lastHandle, overlapped>>

\* CreateFactory as it would be without waiting for initialize_lock_ at
\* line 183
CF_InitLock_NoGuard(d) ==
  /\ pc[d] = "cf_initlock"
  /\ LET e == handler_info[d]
         c == info[e].initialize_count_ + 1
     IN  IF c = 1
         THEN /\ Dlsym(d, "DriverInit")
              /\ info' = [info EXCEPT ![e].initialize_count_ = c,
                                      ![e].initialize_lock_ = d]
              /\ pc' = [pc EXCEPT ![d] = "cf_driver_init"]
         ELSE /\ info' = [info EXCEPT ![e].initialize_count_ = c,
                                      ![e].initialize_lock_ = None]
              /\ pc' = [pc EXCEPT ![d] = "cf_create"]
  /\ UNCHANGED <<factory_count_, driver_handler_, factory_, handler_info,
                 driver_handler_info, handles>>
  /\ UNCHANGED <<regVars, cfgVars, handler_map, handler_map_lock, ldVars, histVars>>

\* lines 183-185 and 212: take the entry's initialize_lock_ and count the
\* initialisation; the first one finds DriverInit and calls it, the others
\* unlock and go on
CF_InitLock(d) ==
  /\ pc[d] = "cf_initlock"
  /\ info[handler_info[d]].initialize_lock_ = None
  /\ LET e == handler_info[d]
         c == info[e].initialize_count_ + 1
     IN  IF c = 1
         THEN /\ Dlsym(d, "DriverInit")
              /\ info' = [info EXCEPT ![e].initialize_count_ = c,
                                      ![e].initialize_lock_ = d]
              /\ pc' = [pc EXCEPT ![d] = "cf_driver_init"]
         ELSE /\ info' = [info EXCEPT ![e].initialize_count_ = c,
                                      ![e].initialize_lock_ = None]
              /\ pc' = [pc EXCEPT ![d] = "cf_create"]
  /\ UNCHANGED <<factory_count_, driver_handler_, factory_, handler_info,
                 driver_handler_info, handles>>
  /\ UNCHANGED <<regVars, cfgVars, handler_map, handler_map_lock, ldVars, histVars>>

\* lines 183-198: the first initialisation finds no DriverInit symbol; the
\* count is put back, the lock released and CloseFactory called
CF_NoInitSymbol(d) ==
  /\ pc[d] = "cf_initlock"
  /\ info[handler_info[d]].initialize_lock_ = None
  /\ info[handler_info[d]].initialize_count_ + 1 = 1
  /\ ~Dlsym(d, "DriverInit")
  /\ info' = [info EXCEPT ![handler_info[d]].initialize_count_ = (@ + 1) - 1,
                          ![handler_info[d]].initialize_lock_ = None]
  /\ CloseFactoryEnter(d, factory_count_[d], factory_[d])
  /\ UNCHANGED <<driver_handler_, handler_info, driver_handler_info, handles>>
  /\ UNCHANGED <<regVars, cfgVars, handler_map, handler_map_lock, ldVars, histVars>>

\* lines 200-201 and 212: DriverInit returns STATUS_OK
CF_DriverInitOk(d) ==
  /\ pc[d] = "cf_driver_init"
  /\ plugInit' = [plugInit EXCEPT ![GetDriverFile(d)] = Bump(@)]
  /\ info' = [info EXCEPT ![handler_info[d]].initialize_lock_ = None]
  /\ initsInInterval' = [initsInInterval EXCEPT ![driver_handler_[d]] = Bump(@)]
  /\ pc' = [pc EXCEPT ![d] = "cf_create"]
  /\ UNCHANGED <<factory_count_, driver_handler_, factory_, handler_info,
                 driver_handler_info, handles>>
  /\ UNCHANGED <<regVars, cfgVars, handler_map, handler_map_lock, libAddr, dlRef, libNoDelete>>
  /\ UNCHANGED <<calls, everSucc, dlBalance, cdfCalls, lastHandle, finisInInterval, overlapped>>

\* CreateFactory as it would be without the unlock of line 203
CF_DriverInitFail_KeepsLock(d) ==
  /\ pc[d] = "cf_driver_init"
  /\ info' = [info EXCEPT ![handler_info[d]].initialize_count_ = @ - 1]
  /\ CloseFactoryEnter(d, factory_count_[d], factory_[d])
  /\ UNCHANGED <<driver_handler_, handler_info, driver_handler_info, handles>>
  /\ UNCHANGED <<regVars, cfgVars, handler_map, handler_map_lock, ldVars, histVars>>

\* lines 200-209: DriverInit returns an error; the count is put back, the
\* lock released and CloseFactory called
CF_DriverInitFail(d) ==
  /\ pc[d] = "cf_driver_init"
  /\ info' = [info EXCEPT ![handler_info[d]].initialize_count_ = @ - 1,
                          ![handler_info[d]].initialize_lock_ = None]
  /\ CloseFactoryEnter(d, factory_count_[d], factory_[d])
  /\ UNCHANGED <<driver_handler_, handler_info, driver_handler_info, handles>>
  /\ UNCHANGED <<regVars, cfgVars, handler_map, handler_map_lock, ldVars, histVars>>

\* lines 214-231: dlsym finds no CreateDriverFactory; CloseFactory is called
CF_NoCreateSymbol(d) ==
  /\ pc[d] = "cf_create"
  /\ ~Dlsym(d, "CreateDriverFactory")
  /\ CloseFactoryEnter(d, factory_count_[d], factory_[d])
  /\ UNCHANGED <<driver_handler_, handler_info, driver_handler_info, handles>>
  /\ UNCHANGED <<regVars, cfgVars, tabVars, ldVars, histVars>>

\* lines 214-233 and 243-249: CreateDriverFactory builds the factory and a
\* child_factory handle on it is returned
CF_CreateOk(d) ==
  /\ pc[d] = "cf_create"
  /\ Dlsym(d, "CreateDriverFactory")
  /\ cdfCalls' = [cdfCalls EXCEPT ![d] = Bump(@)]
  /\ factory_' = [factory_ EXCEPT ![d] = calls[d]]
  /\ handles' = [handles EXCEPT ![d][calls[d]] = @ + 1]
  /\ everSucc' = [everSucc EXCEPT ![d] = TRUE]
  /\ handler_info' = [handler_info EXCEPT ![d] = Null]
  /\ info' = Destroy(info, handler_map, handler_info', driver_handler_info)
  /\ pc' = [pc EXCEPT ![d] = "idle"]
  /\ UNCHANGED <<factory_count_, driver_handler_, driver_handler_info>>
  /\ UNCHANGED <<regVars, cfgVars, handler_map, handler_map_lock, ldVars>>
  /\ UNCHANGED <<calls, dlBalance, lastHandle, initsInInterval, finisInInterval, overlapped>>

\* lines 214-240: CreateDriverFactory returns an empty factory;
\* CloseFactory is called
CF_CreateNull(d) ==
  /\ pc[d] = "cf_create"
  /\ Dlsym(d, "CreateDriverFactory")
  /\ cdfCalls' = [cdfCalls EXCEPT ![d] = Bump(@)]
  /\ CloseFactoryEnter(d, factory_count_[d], Null)
  /\ UNCHANGED <<driver_handler_, handler_info, driver_handler_info, handles>>
  /\ UNCHANGED <<regVars, cfgVars, tabVars, ldVars>>
  /\ UNCHANGED <<calls, everSucc, dlBalance, lastHandle, initsInInterval, finisInInterval, overlapped>>

\* ------------------------------------------------------------------------
\* Driver::CloseFactory
\* ------------------------------------------------------------------------
\* lines 244-246 and 58-65: a caller drops a child_factory handle; its
\* deleter takes mutex_ and calls CloseFactory
Release(d) ==
  /\ pc[d] = "idle"
  /\ overlapped' = (overlapped \/ \E e \in Drivers \ {d} : pc[e] # "idle")
  /\ \E f \in FactoryIds :
       /\ handles[d][f] > 0
       /\ handles' = [handles EXCEPT ![d][f] = @ - 1]
  /\ CloseFactoryEnter(d, factory_count_[d], factory_[d])
  /\ UNCHANGED <<driver_handler_, handler_info, driver_handler_info>>
  /\ UNCHANGED <<regVars, cfgVars, tabVars, ldVars>>
  /\ UNCHANGED <<calls, everSucc, dlBalance, cdfCalls, lastHandle, initsInInterval,
                 finisInInterval>>

\* line 67
CL_MapLock(d) ==
  /\ pc[d] = "cl_maplock"
  /\ handler_map_lock = None
  /\ handler_map_lock' = d
  /\ pc' = [pc EXCEPT ![d] = "cl_get"]
  /\ UNCHANGED <<factory_count_, driver_handler_, factory_, handler_info,
                 driver_handler_info, handles>>
  /\ UNCHANGED <<regVars, cfgVars, handler_map, info, ldVars, histVars>>

\* lines 68-72
CL_Get(d) ==
  /\ pc[d] = "cl_get"
  /\ driver_handler_info' =
       [driver_handler_info EXCEPT ![d] = Get(driver_handler_[d])]
  /\ handler_map_lock' = None
  /\ pc' = [pc EXCEPT ![d] = "cl_initlock"]
  /\ UNCHANGED <<factory_count_, driver_handler_, factory_, handler_info, handles>>
  /\ UNCHANGED <<regVars, cfgVars, handler_map, info, ldVars, histVars>>

\* lines 74-90: take the entry's initialize_lock_ and drop one
\* initialisation; the last one calls DriverFini or, for a no_delete
\* driver, puts the count back.  A null driver_handler_info is
\* dereferenced at line 75: the process crashes.
CL_InitLock(d) ==
  /\ pc[d] = "cl_initlock"
  /\ IF driver_handler_info[d] = Null
     THEN /\ pc' = [pc EXCEPT ![d] = "crash"]
          /\ UNCHANGED <<info, finisInInterval>>
     ELSE /\ info[driver_handler_info[d]].initialize_lock_ = None
          /\ LET e == driver_handler_info[d]
                 c == info[e].initialize_count_ - 1
             IN  IF c = 0
                 THEN IF ~GetNoDelete(d)
                      THEN /\ info' = [info EXCEPT ![e].initialize_count_ = c,
                                                   ![e].initialize_lock_ = d]
                           /\ IF Dlsym(d, "DriverFini")
                              THEN /\ finisInInterval' =
                                        [finisInInterval EXCEPT
                                           ![driver_handler_[d]] = Bump(@)]
                                   /\ pc' = [pc EXCEPT ![d] = "cl_driver_fini"]
                              ELSE /\ pc' = [pc EXCEPT ![d] = "cl_rm_maplock"]
                                   /\ UNCHANGED finisInInterval
                      ELSE /\ info' = [info EXCEPT ![e].initialize_count_ = c + 1,
                                                   ![e].initialize_lock_ = d]
                           /\ pc' = [pc EXCEPT ![d] = "cl_unlock"]
                           /\ UNCHANGED finisInInterval
                 ELSE /\ info' = [info EXCEPT ![e].initialize_count_ = c,
                                              ![e].initialize_lock_ = d]
                      /\ pc' = [pc EXCEPT ![d] = "cl_unlock"]
                      /\ UNCHANGED finisInInterval
  /\ UNCHANGED <<factory_count_, driver_handler_, factory_, handler_info,
                 driver_handler_info, handles>>
  /\ UNCHANGED <<regVars, cfgVars, handler_map, handler_map_lock, ldVars>>
  /\ UNCHANGED <<calls, everSucc, dlBalance, cdfCalls, lastHandle, initsInInterval, overlapped>>

\* line 82: DriverFini returns
CL_DriverFiniReturn(d) ==
  /\ pc[d] = "cl_driver_fini"
  /\ plugInit' = [plugInit EXCEPT ![GetDriverFile(d)] = 0]
  /\ pc' = [pc EXCEPT ![d] = "cl_rm_maplock"]
  /\ UNCHANGED <<factory_count_, driver_handler_, factory_, handler_info,
                 driver_handler_info, handles>>
  /\ UNCHANGED <<regVars, cfgVars, tabVars, libAddr, dlRef, libNoDelete, histVars>>

\* line 85
CL_RemoveLock(d) ==
  /\ pc[d] = "cl_rm_maplock"
  /\ handler_map_lock = None
  /\ handler_map_lock' = d
  /\ pc' = [pc EXCEPT ![d] = "cl_remove"]
  /\ UNCHANGED <<factory_count_, driver_handler_, factory_, handler_info,
                 driver_handler_info, handles>>
  /\ UNCHANGED <<regVars, cfgVars, handler_map, info, ldVars, histVars>>

\* lines 86-87.  Remove dereferences the entry Get returns: with no entry
\* the process crashes.
CL_Remove(d) ==
  /\ pc[d] = "cl_remove"
  /\ IF Get(driver_handler_[d]) = Null
     THEN /\ pc' = [pc EXCEPT ![d] = "crash"]
          /\ UNCHANGED <<handler_map, info, initsInInterval, finisInInterval>>
     ELSE /\ info' = RemoveInfo(driver_handler_[d])
          /\ handler_map' = RemoveMap(driver_handler_[d])
          /\ IF handler_map'[driver_handler_[d]] = Null
             THEN /\ initsInInterval' =
                       [initsInInterval EXCEPT ![driver_handler_[d]] = 0]
                  /\ finisInInterval' =
                       [finisInInterval EXCEPT ![driver_handler_[d]] = 0]
             ELSE UNCHANGED <<initsInInterval, finisInInterval>>
          /\ pc' = [pc EXCEPT ![d] = "cl_unlock"]
  /\ handler_map_lock' = None
  /\ UNCHANGED <<factory_count_, driver_handler_, factory_, handler_info,
                 driver_handler_info, handles>>
  /\ UNCHANGED <<regVars, cfgVars, ldVars, calls, everSucc, dlBalance, cdfCalls, lastHandle, overlapped>>

\* line 93
CL_Unlock(d) ==
  /\ pc[d] = "cl_unlock"
  /\ info' = [info EXCEPT ![driver_handler_info[d]].initialize_lock_ = None]
  /\ pc' = [pc EXCEPT ![d] = "cl_dlclose"]
  /\ UNCHANGED <<factory_count_, driver_handler_, factory_, handler_info,
                 driver_handler_info, handles>>
  /\ UNCHANGED <<regVars, cfgVars, handler_map, handler_map_lock, ldVars, histVars>>

\* lines 94-96 and the return to the caller, which ends the locals
CL_Dlclose(d) ==
  /\ pc[d] = "cl_dlclose"
  /\ factory_' = [factory_ EXCEPT ![d] = Null]
  /\ dlRef' = [dlRef EXCEPT ![GetDriverFile(d)] = @ - 1]
  /\ IF Unmapped(GetDriverFile(d))
     THEN /\ libAddr' = [libAddr EXCEPT ![GetDriverFile(d)] = Null]
          /\ plugInit' = [plugInit EXCEPT ![GetDriverFile(d)] = 0]
     ELSE UNCHANGED <<libAddr, plugInit>>
  /\ dlBalance' = [dlBalance EXCEPT ![d] = @ - 1]
  /\ driver_handler_' = [driver_handler_ EXCEPT ![d] = Null]
  /\ handler_info' = [handler_info EXCEPT ![d] = Null]
  /\ driver_handler_info' = [driver_handler_info EXCEPT ![d] = Null]
  /\ info' = Destroy(info, handler_map, handler_info', driver_handler_info')
  /\ pc' = [pc EXCEPT ![d] = "idle"]
  /\ UNCHANGED <<factory_count_, handles>>
  /\ UNCHANGED <<regVars, cfgVars, handler_map, handler_map_lock, libNoDelete>>
  /\ UNCHANGED <<calls, everSucc, cdfCalls, lastHandle, initsInInterval, finisInInterval, overlapped>>

\* ------------------------------------------------------------------------
\* DriverDesc: version strings
\* ------------------------------------------------------------------------
\* the characters of the strings used as versions
Chars(s) ==
  CASE s = "" -> <<>>
    [] s = "1.0.0" -> <<49, 46, 48, 46, 48>>
    [] s = "2.0.0" -> <<50, 46, 48, 46, 48>>
    [] s = "10.0.0" -> <<49, 48, 46, 48, 46, 48>>
    [] s = "1.2" -> <<49, 46, 50>>
    [] s = "1.2.3.4" -> <<49, 46, 50, 46, 51, 46, 52>>
    [] s = "1.2.a" -> <<49, 46, 50, 46, 97>>

\* std::string operator<
RECURSIVE LexLess(_, _)
LexLess(s, t) ==
  IF t = <<>> THEN FALSE
  ELSE IF s = <<>> THEN TRUE
  ELSE IF Head(s) < Head(t) THEN TRUE
  ELSE IF Head(s) > Head(t) THEN FALSE
  ELSE LexLess(Tail(s), Tail(t))

StringLess(a, b) == LexLess(Chars(a), Chars(b))

\* position of the first split_char in s, 0 when there is none
RECURSIVE Find(_, _, _)
Find(s, ch, i) ==
  IF i > Len(s) THEN 0 ELSE IF s[i] = ch THEN i ELSE Find(s, ch, i + 1)

\* the loop of std::getline(iss, temp, split_char) at lines 320-322
RECURSIVE GetLines(_, _)
GetLines(s, ch) ==
  IF s = <<>> THEN <<>>
  ELSE LET i == Find(s, ch, 1)
       IN  IF i = 0 THEN <<s>>
           ELSE <<SubSeq(s, 1, i - 1)>> \o GetLines(SubSeq(s, i + 1, Len(s)), ch)

IsDigit(ch) == ch \in 48..57

\* DriverDesc::CheckVersion on the characters of the string: TRUE for
\* STATUS_SUCCESS
CheckVersionChars(version) ==
  LET split_char == 46
      version_ == GetLines(version, split_char)
  IN  /\ Find(version, split_char, 1) # 0
      /\ Len(version_) = 3
      /\ \A k \in 1..Len(version_) :
           \A j \in 1..Len(version_[k]) : IsDigit(version_[k][j])

\* DriverDesc::CheckVersion: TRUE for STATUS_SUCCESS
CheckVersion(version) == CheckVersionChars(Chars(version))

\* DriverDesc::SetVersion: driver_version_ after the call
SetVersion(driver_version_, version) ==
  IF version = "" THEN driver_version_
  ELSE IF ~CheckVersion(version) THEN driver_version_
  ELSE version

\* ------------------------------------------------------------------------
\* Drivers: queries on drivers_list_
\* ------------------------------------------------------------------------
\* Drivers::GetDriver: the position in list of the driver returned, Null for
\* nullptr
RECURSIVE GetDriverLoop(_, _, _, _, _, _, _)
GetDriverLoop(list, i, temp_driver, driver_class, driver_type, driver_name, driver_version) ==
  IF i > Len(list) THEN temp_driver
  ELSE IF \/ list[i].class # driver_class
          \/ list[i].type # driver_type
          \/ list[i].name # driver_name
       THEN GetDriverLoop(list, i + 1, temp_driver, driver_class, driver_type,
                          driver_name, driver_version)
  ELSE IF list[i].version = driver_version THEN i
  ELSE IF temp_driver = Null
       THEN GetDriverLoop(list, i + 1, i, driver_class, driver_type,
                          driver_name, driver_version)
  ELSE IF StringLess(list[temp_driver].version, list[i].version)
       THEN GetDriverLoop(list, i + 1, i, driver_class, driver_type,
                          driver_name, driver_version)
  ELSE GetDriverLoop(list, i + 1, temp_driver, driver_class, driver_type,
                     driver_name, driver_version)

\* GetDriver as it would be if line 906 compared with no version
GetDriver_NoExactMatch(list, driver_class, driver_type, driver_name, driver_version) ==
  GetDriverLoop(list, 1, Null, driver_class, driver_type, driver_name, "none")

GetDriver(list, driver_class, driver_type, driver_name, driver_version) ==
  GetDriverLoop(list, 1, Null, driver_class, driver_type, driver_name,
                driver_version)

\* Drivers::DriversContains
DriversContains(list, target_desc) ==
  \E i \in 1..Len(list) :
    /\ list[i].class = target_desc.class
    /\ list[i].type = target_desc.type
    /\ list[i].name = target_desc.name
    /\ list[i].description = target_desc.description
    /\ list[i].version = target_desc.version

\* Drivers::GetDriverListByClass: the positions of the drivers of a class
GetDriverListByClass(list, driver_class) ==
  LET RECURSIVE Collect(_)
      Collect(i) ==
        IF i > Len(list) THEN <<>>
        ELSE (IF list[i].class = driver_class THEN <<i>> ELSE <<>>)
               \o Collect(i + 1)
  IN  Collect(1)

\* ------------------------------------------------------------------------
\* Drivers::Add
\* ------------------------------------------------------------------------
\* dlopen(file, RTLD_LAZY | RTLD_LOCAL) returns a handle
Loadable(file) == fs[file].kind # "absent" /\ file \in Libs \cup {"nodesc"}

\* dlsym(driver_handler, "DriverDescription") finds the symbol
HasDriverDescription(file) == file \in Libs

\* a fresh Driver after driver_func(desc.get()) filled its descriptor
DriverDescription(file) ==
  [class |-> plugin[file].class, type |-> plugin[file].type,
   name |-> plugin[file].name,
   version |-> SetVersion("", plugin[file].version),
   description |-> plugin[file].description, file_path |-> "",
   no_delete |-> plugin[file].no_delete, is_virtual |-> FALSE, obj |-> None]

\* Add as it would be if line 805 did not look for the driver in the list
Add_NoContains(list, file) ==
  IF ~Loadable(file)
  THEN [status |-> "STATUS_INVALID", msg |-> "dlopen failed",
        drivers_list_ |-> list, opened |-> 0, closed |-> 0]
  ELSE IF ~HasDriverDescription(file)
  THEN [status |-> "STATUS_NOTSUPPORT", msg |-> "dlsym DriverDescription failed",
        drivers_list_ |-> list, opened |-> 1, closed |-> 1]
  ELSE LET driver == DriverDescription(file)
           second == IF driver.no_delete THEN 1 ELSE 0
       IN  [status |-> "STATUS_OK", msg |-> "",
            drivers_list_ |-> Append(list, [driver EXCEPT !.file_path = file]),
            opened |-> 1 + second, closed |-> second + 1]

\* Drivers::Add(file) on the list `list`: the status and message returned,
\* the list it leaves, and the handles it opened and closed with dlopen and
\* dlclose
Add(list, file) ==
  IF ~Loadable(file)
  THEN [status |-> "STATUS_INVALID", msg |-> "dlopen failed",
        drivers_list_ |-> list, opened |-> 0, closed |-> 0]
  ELSE IF ~HasDriverDescription(file)
  THEN [status |-> "STATUS_NOTSUPPORT", msg |-> "dlsym DriverDescription failed",
        drivers_list_ |-> list, opened |-> 1, closed |-> 1]
  ELSE LET driver == DriverDescription(file)
           second == IF driver.no_delete THEN 1 ELSE 0
       IN  IF DriversContains(list, driver)
           THEN [status |-> "STATUS_EXIST", msg |-> "driver is already registered.",
                 drivers_list_ |-> list, opened |-> 1, closed |-> 1]
           ELSE [status |-> "STATUS_OK", msg |-> "",
                 drivers_list_ |-> Append(list, [driver EXCEPT !.file_path = file]),
                 opened |-> 1 + second, closed |-> second + 1]

\* ------------------------------------------------------------------------
\* The filesystem and the scan cache file
\* ------------------------------------------------------------------------
\* ListFiles(path, filter): the entries of the directory that exist
ListFiles(path) ==
  LET Exists(f) == fs[f].kind # "absent"
  IN  SelectSeq(Layout[path], Exists)

\* GenerateKey: the check code of a sum of mtimes
GenerateKey(sum) == <<"key", sum>>

\* the paths in the order a std::map<std::string, ...> iterates them
PathOrder ==
  <<"bad", "dirA", "dirE", "dirM", "libA", "libB", "link", "new", "nodesc">>

\* lines 472-495: the successful entries WriteScanInfo dumps
RECURSIVE DumpDrivers(_)
DumpDrivers(list) ==
  IF list = <<>> THEN <<>>
  ELSE <<[load_success |-> TRUE, class |-> Head(list).class,
          type |-> Head(list).type, name |-> Head(list).name,
          description |-> Head(list).description,
          version |-> Head(list).version, file_path |-> Head(list).file_path,
          no_delete |-> Head(list).no_delete, err_msg |-> ""]>>
         \o DumpDrivers(Tail(list))

\* lines 497-505: the failed entries WriteScanInfo dumps
RECURSIVE DumpFailed(_, _)
DumpFailed(load_failed_info, i) ==
  IF i > Len(PathOrder) THEN <<>>
  ELSE (IF load_failed_info[PathOrder[i]] = "" THEN <<>>
        ELSE <<[load_success |-> FALSE, class |-> "", type |-> "", name |-> "",
                description |-> "", version |-> "",
                file_path |-> PathOrder[i], no_delete |-> FALSE,
                err_msg |-> load_failed_info[PathOrder[i]]]>>)
         \o DumpFailed(load_failed_info, i + 1)

\* Drivers::WriteScanInfo run by the process whose registry is c: the file
\* it leaves
WriteScanInfo(c, check_code) ==
  [exists |-> TRUE, writable |-> TRUE,
   ld_cache_time |-> IF ld_cache.exists THEN ld_cache.mtime ELSE 0,
   check_code |-> check_code,
   scan_drivers |-> DumpDrivers(c.drivers_list_) \o DumpFailed(c.failed, 1)]

\* std::make_shared<Driver>() at line 531: the Driver object of a new list
\* element.  The first two drivers of a list are the ones asked for
\* factories; any further one stays as constructed and carries no object.
NewDriver(list, driver_class) ==
  IF \A i \in 1..Len(list) : list[i].obj # "d1" THEN "d1"
  ELSE IF \A i \in 1..Len(list) : list[i].obj # "d2" THEN "d2"
  ELSE None

\* Drivers::GatherScanInfo, lines 526-547: the list after the entries from
\* position i on were read
RECURSIVE GatherLoop(_, _, _)
GatherLoop(list, driver_json_arr, i) ==
  IF i > Len(driver_json_arr) THEN list
  ELSE LET driver_info == driver_json_arr[i]
           driver ==
             [class |-> driver_info.class, type |-> driver_info.type,
              name |-> driver_info.name,
              version |-> SetVersion("", driver_info.version),
              description |-> driver_info.description,
              file_path |-> driver_info.file_path,
              no_delete |-> driver_info.no_delete, is_virtual |-> FALSE,
              obj |-> NewDriver(list, driver_info.class)]
           tmp_driver == GetDriver(list, driver_info.class, driver_info.type,
                                   driver_info.name, driver_info.version)
       IN  IF ~driver_info.load_success
           THEN GatherLoop(list, driver_json_arr, i + 1)
           ELSE IF tmp_driver = Null
           THEN GatherLoop(Append(list, driver), driver_json_arr, i + 1)
           ELSE GatherLoop(list, driver_json_arr, i + 1)

GatherScanInfo(list) == GatherLoop(list, scan_info.scan_drivers, 1)

\* Drivers::FillCheckInfo: the file_map built from the cache
FillCheckInfo ==
  {scan_info.scan_drivers[i].file_path : i \in 1..Len(scan_info.scan_drivers)}

\* Drivers::CheckPathAndMagicCode, lines 593-639: the walk over the
\* directories from position i on, with the files of the current directory
\* still to look at; the sum of mtimes, or -1 for `return false`
RECURSIVE CheckWalk(_, _, _, _)
CheckWalk(i, files, inside, check_sum) ==
  IF inside
  THEN IF files = <<>> THEN CheckWalk(i + 1, <<>>, FALSE, check_sum)
       ELSE IF fs[Head(files)].kind = "absent"
       THEN CheckWalk(i, Tail(files), TRUE, check_sum)
       ELSE IF fs[Head(files)].kind = "link"
       THEN CheckWalk(i, Tail(files), TRUE, check_sum)
       ELSE IF Head(files) \notin FillCheckInfo THEN -1
       ELSE CheckWalk(i, Tail(files), TRUE, check_sum + fs[Head(files)].mtime)
  ELSE IF i > Len(driver_dirs_) THEN check_sum
  ELSE IF fs[driver_dirs_[i]].kind = "absent" THEN -1
  ELSE IF fs[driver_dirs_[i]].kind # "dir"
       THEN CheckWalk(i + 1, <<>>, FALSE, check_sum + fs[driver_dirs_[i]].mtime)
  ELSE CheckWalk(i, ListFiles(driver_dirs_[i]), TRUE, check_sum)

CheckPathAndMagicCode ==
  /\ scan_info.exists
  /\ ld_cache.exists
  /\ scan_info.ld_cache_time = ld_cache.mtime
  /\ CheckWalk(1, <<>>, FALSE, 0) # -1
  /\ scan_info.check_code = GenerateKey(CheckWalk(1, <<>>, FALSE, 0))

\* ------------------------------------------------------------------------
\* Drivers::Initialize
\* ------------------------------------------------------------------------
Initialize(config) ==
  /\ rpc = "idle"
  /\ config_.null
  /\ IF config.null
     THEN UNCHANGED <<config_, driver_dirs_, hist>>
     ELSE /\ config_' = config
          /\ driver_dirs_' =
               config.dirs \o (IF ~config.skip_default
                               THEN <<MODELBOX_DEFAULT_DRIVER_PATH>> ELSE <<>>)
          /\ hist' = [hist EXCEPT !.succ = 0, !.succWalks = 0]
  /\ UNCHANGED <<plugin, fs, ld_cache, scan_info, drivers_list_,
                 virtual_driver_manager_list_, last_modify_time_sum_,
                 drivers_scan_result_info_, child, rpc, loop>>
  /\ UNCHANGED <<cfgVars, drvVars, tabVars, ldVars, histVars>>

\* ------------------------------------------------------------------------
\* Drivers::Scan()
\* ------------------------------------------------------------------------
\* lines 699-701: the cache is checked; when it is not valid a helper
\* process is forked, which starts InnerScan on its copy of the registry
Scan_Check ==
  /\ rpc = "idle"
  /\ hist.scans < MaxScans
  /\ TotalCalls < MaxCalls
  /\ IF CheckPathAndMagicCode
     THEN /\ rpc' = "gather"
          /\ child' = child
          /\ hist' = [hist EXCEPT !.scans = @ + 1, !.walked = FALSE]
     ELSE /\ rpc' = "wait_child"
          /\ child' = [alive |-> TRUE, drivers_list_ |-> drivers_list_,
                       last_modify_time_sum_ |-> last_modify_time_sum_,
                       success |-> drivers_scan_result_info_.success,
                       failed |-> drivers_scan_result_info_.failed,
                       dir |-> 1, files |-> <<>>]
          /\ hist' = [hist EXCEPT !.scans = @ + 1, !.walked = TRUE,
                                  !.walks = @ + 1, !.succWalks = @ + 1,
                                  !.processed = <<>>]
  /\ UNCHANGED <<plugin, fs, ld_cache, scan_info, config_, driver_dirs_,
                 drivers_list_, virtual_driver_manager_list_,
                 last_modify_time_sum_, drivers_scan_result_info_, loop>>
  /\ UNCHANGED <<cfgVars, drvVars, tabVars, ldVars, histVars>>

\* Scan(path, filter), lines 385-392 and 416-424: one file is added to the
\* registry c and entered in the result buckets
ScanFile(c, file) ==
  LET result == Add(c.drivers_list_, file)
  IN  [c EXCEPT !.last_modify_time_sum_ = @ + fs[file].mtime,
                !.drivers_list_ = result.drivers_list_,
                !.success = IF result.status = "STATUS_OK"
                            THEN Append(@, file) ELSE @,
                !.failed = IF result.status # "STATUS_OK" /\ @[file] = ""
                           THEN [@ EXCEPT ![file] = result.msg] ELSE @]

\* what the history keeps of the Add call made on file by the registry c
AddCalled(c, file) ==
  LET result == Add(c.drivers_list_, file)
  IN  [hist EXCEPT !.add = [valid |-> TRUE, file |-> file,
                            before |-> c.drivers_list_,
                            status |-> result.status,
                            after |-> result.drivers_list_,
                            opened |-> result.opened,
                            closed |-> result.closed],
                   !.processed = Append(@, [file |-> file,
                                            status |-> result.status,
                                            msg |-> result.msg])]

\* InnerScan lines 650-656 with Scan(path, filter) lines 376-404: the helper
\* takes the next configured path; a file is added at once, a directory is
\* listed
Child_ScanDir ==
  /\ rpc = "wait_child"
  /\ child.alive
  /\ child.files = <<>>
  /\ child.dir <= Len(driver_dirs_)
  /\ LET path == driver_dirs_[child.dir]
     IN  IF fs[path].kind = "absent"
         THEN /\ child' = [child EXCEPT !.dir = @ + 1]
              /\ UNCHANGED hist
         ELSE IF fs[path].kind # "dir"
         THEN /\ child' = [ScanFile(child, path) EXCEPT !.dir = @ + 1]
              /\ hist' = AddCalled(child, path)
         ELSE IF Len(ListFiles(path)) = 0
         THEN /\ child' = [child EXCEPT !.dir = @ + 1]
              /\ UNCHANGED hist
         ELSE /\ child' = [child EXCEPT !.files = ListFiles(path)]
              /\ UNCHANGED hist
  /\ UNCHANGED <<plugin, fs, ld_cache, scan_info, config_, driver_dirs_,
                 drivers_list_, virtual_driver_manager_list_,
                 last_modify_time_sum_, drivers_scan_result_info_, rpc, loop>>
  /\ UNCHANGED <<cfgVars, drvVars, tabVars, ldVars, histVars>>

\* the walk as it would be if a file that Add refuses ended it
Child_ScanFile_StopsOnFailure ==
  /\ rpc = "wait_child"
  /\ child.alive
  /\ child.files # <<>>
  /\ LET driver_file == Head(child.files)
         c == [child EXCEPT !.files = Tail(@),
                            !.dir = IF Tail(child.files) = <<>> THEN @ + 1 ELSE @]
     IN  IF fs[driver_file].kind = "absent" \/ fs[driver_file].kind = "link"
         THEN /\ child' = c
              /\ UNCHANGED hist
         ELSE /\ child' =
                   IF Add(child.drivers_list_, driver_file).status = "STATUS_OK"
                   THEN ScanFile(c, driver_file)
                   ELSE [ScanFile(c, driver_file) EXCEPT
                           !.files = <<>>, !.dir = Len(driver_dirs_) + 1]
              /\ hist' = AddCalled(child, driver_file)
  /\ UNCHANGED <<plugin, fs, ld_cache, scan_info, config_, driver_dirs_,
                 drivers_list_, virtual_driver_manager_list_,
                 last_modify_time_sum_, drivers_scan_result_info_, rpc, loop>>
  /\ UNCHANGED <<cfgVars, drvVars, tabVars, ldVars, histVars>>

\* Scan(path, filter) lines 406-427: the helper takes the next file of the
\* directory it is in
Child_ScanFile ==
  /\ rpc = "wait_child"
  /\ child.alive
  /\ child.files # <<>>
  /\ LET driver_file == Head(child.files)
         c == [child EXCEPT !.files = Tail(@),
                            !.dir = IF Tail(child.files) = <<>> THEN @ + 1 ELSE @]
     IN  IF fs[driver_file].kind = "absent" \/ fs[driver_file].kind = "link"
         THEN /\ child' = c
              /\ UNCHANGED hist
         ELSE /\ child' = ScanFile(c, driver_file)
              /\ hist' = AddCalled(child, driver_file)
  /\ UNCHANGED <<plugin, fs, ld_cache, scan_info, config_, driver_dirs_,
                 drivers_list_, virtual_driver_manager_list_,
                 last_modify_time_sum_, drivers_scan_result_info_, rpc, loop>>
  /\ UNCHANGED <<cfgVars, drvVars, tabVars, ldVars, histVars>>

\* InnerScan lines 658-667 and Scan() lines 702-707: the helper writes the
\* cache file and exits; the parent goes on, or returns STATUS_FAULT when
\* the helper could not write
Child_Write ==
  /\ rpc = "wait_child"
  /\ child.alive
  /\ child.dir > Len(driver_dirs_)
  /\ IF scan_info.writable
     THEN /\ scan_info' =
               WriteScanInfo(child, GenerateKey(child.last_modify_time_sum_))
          /\ rpc' = "gather"
          /\ hist' = [hist EXCEPT !.status = "STATUS_OK",
                                  !.walk = [valid |-> TRUE,
                                            success |-> child.success,
                                            failed |-> child.failed,
                                            written |-> child.drivers_list_,
                                            fs |-> fs, dirs |-> driver_dirs_]]
     ELSE /\ UNCHANGED scan_info
          /\ rpc' = "idle"
          /\ hist' = [hist EXCEPT !.status = "STATUS_FAULT", !.succ = 0,
                                  !.succWalks = 0]
  /\ child' = NoChild
  /\ UNCHANGED <<plugin, fs, ld_cache, config_, driver_dirs_,
                 drivers_list_, virtual_driver_manager_list_,
                 last_modify_time_sum_, drivers_scan_result_info_, loop>>
  /\ UNCHANGED <<cfgVars, drvVars, tabVars, ldVars, histVars>>

\* the drivers Gather adds to list get their descriptors
GatheredDesc(list) ==
  [d \in Drivers |->
     IF \E i \in 1..Len(list) :
          list[i].obj = d /\ \A j \in 1..Len(drivers_list_) : drivers_list_[j].obj # d
     THEN LET i == CHOOSE i \in 1..Len(list) : list[i].obj = d
          IN  [file_path |-> list[i].file_path, no_delete |-> list[i].no_delete]
     ELSE desc[d]]

\* Scan() lines 710-719: the cache is read into drivers_list_ and
\* VirtualDriverScan takes its copy of the drivers of class virtual
Scan_Gather ==
  /\ rpc = "gather"
  /\ IF ~scan_info.exists
     THEN /\ rpc' = "idle"
          /\ UNCHANGED <<drivers_list_, loop, desc>>
          /\ hist' = [hist EXCEPT !.status = "STATUS_FAULT", !.succ = 0,
                                  !.succWalks = 0]
     ELSE /\ drivers_list_' = GatherScanInfo(drivers_list_)
          /\ desc' = GatheredDesc(drivers_list_')
          /\ rpc' = "vds"
          /\ loop' = [NoLoop EXCEPT !.todo =
                        GetDriverListByClass(drivers_list_', DRIVER_CLASS_VIRTUAL)]
          /\ hist' = [hist EXCEPT !.roundtrip =
                        [valid |-> hist.walked /\ drivers_list_ = <<>>,
                         read |-> drivers_list_'],
                        !.pass = drivers_list_', !.asked = <<>>]
  /\ UNCHANGED <<plugin, fs, ld_cache, scan_info, config_, driver_dirs_,
                 virtual_driver_manager_list_, last_modify_time_sum_,
                 drivers_scan_result_info_, child>>
  /\ UNCHANGED <<exports, drvVars, tabVars, ldVars, histVars>>

\* ------------------------------------------------------------------------
\* Drivers::VirtualDriverScan
\* ------------------------------------------------------------------------
\* the behaviour of the library behind driver d
Fault(d) == plugin[GetDriverFile(d)].fault

\* line 745: driver->CreateFactory() is called on the next driver of the
\* copied list.  A driver that a manager produced answers with a factory
\* that is no VirtualDriverManager: it is passed over (line 747)
VDS_Call ==
  /\ rpc = "vds"
  /\ loop.todo # <<>>
  /\ hist' = [hist EXCEPT !.asked = Append(@, Head(loop.todo))]
  /\ LET d == drivers_list_[Head(loop.todo)].obj
     IN  IF d = None
         THEN /\ loop' = [loop EXCEPT !.todo = Tail(@)]
              /\ rpc' = "vds"
         ELSE /\ loop' = [loop EXCEPT !.obj = d, !.base = calls[d],
                                      !.out = Outstanding(d)]
              /\ rpc' = "vds_run"
  /\ UNCHANGED <<plugin, fs, ld_cache, scan_info, config_, driver_dirs_,
                 drivers_list_, virtual_driver_manager_list_,
                 last_modify_time_sum_, drivers_scan_result_info_, child>>
  /\ UNCHANGED <<cfgVars, drvVars, tabVars, ldVars, histVars>>

\* VirtualDriverScan as it would be looping over drivers_list_ itself, not
\* over the copy GetDriverListByClass returns
VDS_Return_LiveList ==
  /\ rpc = "vds_run"
  /\ calls[loop.obj] > loop.base
  /\ pc[loop.obj] = "idle"
  /\ IF Outstanding(loop.obj) = loop.out
     THEN /\ rpc' = "vds"
          /\ loop' = [loop EXCEPT !.todo = Tail(@), !.obj = None]
          /\ UNCHANGED <<drivers_list_, virtual_driver_manager_list_>>
     ELSE IF Fault(loop.obj) = "notmanager"
     THEN /\ rpc' = "vds_drop"
          /\ UNCHANGED <<loop, drivers_list_, virtual_driver_manager_list_>>
     ELSE /\ rpc' = "vds"
          /\ drivers_list_' = drivers_list_ \o SubDrivers
          /\ virtual_driver_manager_list_' =
               Append(virtual_driver_manager_list_,
                      [obj |-> loop.obj, factory |-> factory_[loop.obj]])
          /\ loop' = [loop EXCEPT
               !.todo = Tail(@) \o
                 [k \in 1..Len(GetDriverListByClass(SubDrivers, DRIVER_CLASS_VIRTUAL)) |->
                    Len(drivers_list_)
                      + GetDriverListByClass(SubDrivers, DRIVER_CLASS_VIRTUAL)[k]],
               !.obj = None]
  /\ UNCHANGED <<plugin, fs, ld_cache, scan_info, config_, driver_dirs_,
                 last_modify_time_sum_, drivers_scan_result_info_, child, hist>>
  /\ UNCHANGED <<cfgVars, drvVars, tabVars, ldVars, histVars>>

\* VirtualDriverScan as it would be without line 765
VDS_Return_NotRetained ==
  /\ rpc = "vds_run"
  /\ calls[loop.obj] > loop.base
  /\ pc[loop.obj] = "idle"
  /\ IF Outstanding(loop.obj) = loop.out
     THEN /\ rpc' = "vds"
          /\ loop' = [loop EXCEPT !.todo = Tail(@), !.obj = None]
          /\ UNCHANGED <<drivers_list_, virtual_driver_manager_list_>>
     ELSE IF Fault(loop.obj) = "notmanager"
     THEN /\ rpc' = "vds_drop"
          /\ UNCHANGED <<loop, drivers_list_, virtual_driver_manager_list_>>
     ELSE /\ rpc' = "vds_drop"
          /\ drivers_list_' = drivers_list_ \o SubDrivers
          /\ UNCHANGED <<loop, virtual_driver_manager_list_>>
  /\ UNCHANGED <<plugin, fs, ld_cache, scan_info, config_, driver_dirs_,
                 last_modify_time_sum_, drivers_scan_result_info_, child, hist>>
  /\ UNCHANGED <<cfgVars, drvVars, tabVars, ldVars, histVars>>

\* lines 743-765: CreateFactory has returned.  Without a factory the
\* driver is passed over; a factory that is no VirtualDriverManager is
\* dropped, which releases its handle; a manager is initialised and scans,
\* the drivers it holds are appended and the manager is kept
VDS_Return ==
  /\ rpc = "vds_run"
  /\ calls[loop.obj] > loop.base
  /\ pc[loop.obj] = "idle"
  /\ IF Outstanding(loop.obj) = loop.out
     THEN /\ rpc' = "vds"
          /\ loop' = [loop EXCEPT !.todo = Tail(@), !.obj = None]
          /\ UNCHANGED <<drivers_list_, virtual_driver_manager_list_>>
     ELSE IF Fault(loop.obj) = "notmanager"
     THEN /\ rpc' = "vds_drop"
          /\ UNCHANGED <<loop, drivers_list_, virtual_driver_manager_list_>>
     ELSE /\ rpc' = "vds"
          /\ drivers_list_' = drivers_list_ \o SubDrivers
          /\ virtual_driver_manager_list_' =
               Append(virtual_driver_manager_list_,
                      [obj |-> loop.obj, factory |-> factory_[loop.obj]])
          /\ loop' = [loop EXCEPT !.todo = Tail(@), !.obj = None]
  /\ UNCHANGED <<plugin, fs, ld_cache, scan_info, config_, driver_dirs_,
                 last_modify_time_sum_, drivers_scan_result_info_, child, hist>>
  /\ UNCHANGED <<cfgVars, drvVars, tabVars, ldVars, histVars>>

\* lines 747-749: the handle of the dropped factory has been released
VDS_Dropped ==
  /\ rpc = "vds_drop"
  /\ Outstanding(loop.obj) = loop.out
  /\ pc[loop.obj] = "idle"
  /\ rpc' = "vds"
  /\ loop' = [loop EXCEPT !.todo = Tail(@), !.obj = None]
  /\ UNCHANGED <<plugin, fs, ld_cache, scan_info, config_, driver_dirs_,
                 drivers_list_, virtual_driver_manager_list_,
                 last_modify_time_sum_, drivers_scan_result_info_, child, hist>>
  /\ UNCHANGED <<cfgVars, drvVars, tabVars, ldVars, histVars>>

\* the descriptors of a list of drivers
RECURSIVE Descriptors(_)
Descriptors(list) ==
  IF list = <<>> THEN <<>>
  ELSE <<[class |-> Head(list).class, type |-> Head(list).type,
          name |-> Head(list).name, version |-> Head(list).version,
          description |-> Head(list).description,
          file_path |-> Head(list).file_path,
          no_delete |-> Head(list).no_delete,
          is_virtual |-> Head(list).is_virtual]>> \o Descriptors(Tail(list))

\* lines 768 and 722: the copied list is exhausted, Scan() returns
VDS_Done ==
  /\ rpc = "vds"
  /\ loop.todo = <<>>
  /\ rpc' = "idle"
  /\ loop' = NoLoop
  /\ hist' = [hist EXCEPT
       !.status = "STATUS_OK", !.done = @ + 1, !.succ = @ + 1,
       !.first = IF hist.done = 0 /\ ~hist.cleared
                 THEN [valid |-> TRUE, list |-> Descriptors(drivers_list_),
                       managers |-> Len(virtual_driver_manager_list_),
                       config |-> config_]
                 ELSE @]
  /\ UNCHANGED <<plugin, fs, ld_cache, scan_info, config_, driver_dirs_,
                 drivers_list_, virtual_driver_manager_list_,
                 last_modify_time_sum_, drivers_scan_result_info_, child>>
  /\ UNCHANGED <<cfgVars, drvVars, tabVars, ldVars, histVars>>

\* ------------------------------------------------------------------------
\* Drivers::Clear
\* ------------------------------------------------------------------------
\* the elements of list that are not virtual drivers
RECURSIVE EraseVirtual(_)
EraseVirtual(list) ==
  IF list = <<>> THEN <<>>
  ELSE (IF Head(list).is_virtual THEN <<>> ELSE <<Head(list)>>)
         \o EraseVirtual(Tail(list))

\* lines 726-733: the virtual drivers are erased.  erase(iter) invalidates
\* iter, which the loop goes on using: the loop carries on at the element
\* that took the erased one's place, or the process is stopped
Clear_Erase ==
  /\ rpc = "idle"
  /\ hist.done > 0
  /\ hist.clears < MaxClears
  /\ \/ /\ drivers_list_' = EraseVirtual(drivers_list_)
        /\ rpc' = "clear_managers"
     \/ /\ \E i \in 1..Len(drivers_list_) : drivers_list_[i].is_virtual
        /\ rpc' = "crash"
        /\ UNCHANGED drivers_list_
  /\ UNCHANGED <<plugin, fs, ld_cache, scan_info, config_, driver_dirs_,
                 virtual_driver_manager_list_, last_modify_time_sum_,
                 drivers_scan_result_info_, child, loop, hist>>
  /\ UNCHANGED <<cfgVars, drvVars, tabVars, ldVars, histVars>>

\* Clear_Manager forgetting the manager without letting its handle go
Clear_Manager_NoRelease ==
  /\ rpc = "clear_managers"
  /\ virtual_driver_manager_list_ # <<>>
  /\ virtual_driver_manager_list_' = Tail(virtual_driver_manager_list_)
  /\ UNCHANGED <<plugin, fs, ld_cache, scan_info, config_, driver_dirs_,
                 drivers_list_, last_modify_time_sum_,
                 drivers_scan_result_info_, child, hist, rpc, loop>>
  /\ UNCHANGED <<cfgVars, drvVars, tabVars, ldVars, histVars>>

\* line 734: the next manager of virtual_driver_manager_list_ is destroyed,
\* which drops the factory handle it is
Clear_Manager ==
  /\ rpc = "clear_managers"
  /\ virtual_driver_manager_list_ # <<>>
  /\ LET d == Head(virtual_driver_manager_list_).obj
     IN  loop' = [loop EXCEPT !.obj = d, !.out = Outstanding(d) - 1]
  /\ virtual_driver_manager_list_' = Tail(virtual_driver_manager_list_)
  /\ rpc' = "clear_drop"
  /\ UNCHANGED <<plugin, fs, ld_cache, scan_info, config_, driver_dirs_,
                 drivers_list_, last_modify_time_sum_,
                 drivers_scan_result_info_, child, hist>>
  /\ UNCHANGED <<cfgVars, drvVars, tabVars, ldVars, histVars>>

\* line 734: the handle has been released
Clear_Dropped ==
  /\ rpc = "clear_drop"
  /\ Outstanding(loop.obj) = loop.out
  /\ pc[loop.obj] = "idle"
  /\ rpc' = "clear_managers"
  /\ loop' = NoLoop
  /\ UNCHANGED <<plugin, fs, ld_cache, scan_info, config_, driver_dirs_,
                 drivers_list_, virtual_driver_manager_list_,
                 last_modify_time_sum_, drivers_scan_result_info_, child, hist>>
  /\ UNCHANGED <<cfgVars, drvVars, tabVars, ldVars, histVars>>

\* Clear_Finish without the check of Driver::~Driver
Clear_Finish_NoAbort ==
  /\ rpc = "clear_managers"
  /\ virtual_driver_manager_list_ = <<>>
  /\ rpc' = "idle"
  /\ drivers_list_' = <<>>
  /\ driver_dirs_' = <<>>
  /\ config_' = NoConfig
  /\ last_modify_time_sum_' = 0
  /\ hist' = [hist EXCEPT !.cleared = TRUE, !.clears = @ + 1,
                                    !.succ = 0, !.succWalks = 0]
  /\ UNCHANGED <<plugin, fs, ld_cache, scan_info,
                 virtual_driver_manager_list_, drivers_scan_result_info_,
                 child, loop>>
  /\ UNCHANGED <<cfgVars, drvVars, tabVars, ldVars, histVars>>

\* lines 735-738 with Driver::~Driver: the list is cleared, which destroys
\* its drivers; a driver with factory_count_ not 0 aborts the process
Clear_Finish ==
  /\ rpc = "clear_managers"
  /\ virtual_driver_manager_list_ = <<>>
  /\ IF \E i \in 1..Len(drivers_list_) :
          /\ drivers_list_[i].obj # None
          /\ factory_count_[drivers_list_[i].obj] # 0
     THEN /\ rpc' = "abort"
          /\ UNCHANGED <<drivers_list_, driver_dirs_, config_,
                         last_modify_time_sum_, hist>>
     ELSE /\ rpc' = "idle"
          /\ drivers_list_' = <<>>
          /\ driver_dirs_' = <<>>
          /\ config_' = NoConfig
          /\ last_modify_time_sum_' = 0
          /\ hist' = [hist EXCEPT !.cleared = TRUE, !.clears = @ + 1,
                                    !.succ = 0, !.succWalks = 0]
  /\ UNCHANGED <<plugin, fs, ld_cache, scan_info,
                 virtual_driver_manager_list_, drivers_scan_result_info_,
                 child, loop>>
  /\ UNCHANGED <<cfgVars, drvVars, tabVars, ldVars, histVars>>

\* ------------------------------------------------------------------------
\* The environment: the filesystem changes between two operations
\* ------------------------------------------------------------------------
Edited == [hist EXCEPT !.edits = @ + 1, !.succ = 0, !.succWalks = 0]

\* a file is written again: its mtime changes
Touch(f) ==
  /\ rpc = "idle"
  /\ hist.done > 0
  /\ hist.edits < MaxEdits
  /\ fs[f].kind = "file"
  /\ \E t \in MTimes \ {fs[f].mtime} : fs' = [fs EXCEPT ![f].mtime = t]
  /\ hist' = Edited
  /\ UNCHANGED <<plugin, ld_cache, scan_info, config_, driver_dirs_, drivers_list_,
                 virtual_driver_manager_list_, last_modify_time_sum_,
                 drivers_scan_result_info_, child, rpc, loop>>
  /\ UNCHANGED <<cfgVars, drvVars, tabVars, ldVars, histVars>>

\* a file is removed
Remove(f) ==
  /\ rpc = "idle"
  /\ hist.done > 0
  /\ hist.edits < MaxEdits
  /\ fs[f].kind = "file"
  /\ fs' = [fs EXCEPT ![f].kind = "absent"]
  /\ hist' = Edited
  /\ UNCHANGED <<plugin, ld_cache, scan_info, config_, driver_dirs_, drivers_list_,
                 virtual_driver_manager_list_, last_modify_time_sum_,
                 drivers_scan_result_info_, child, rpc, loop>>
  /\ UNCHANGED <<cfgVars, drvVars, tabVars, ldVars, histVars>>

\* a file is created
Create(f) ==
  /\ rpc = "idle"
  /\ hist.done > 0
  /\ hist.edits < MaxEdits
  /\ fs[f].kind = "absent"
  /\ \E t \in MTimes : fs' = [fs EXCEPT ![f] = [kind |-> "file", mtime |-> t]]
  /\ hist' = [Edited EXCEPT !.created = @ \cup {f}]
  /\ UNCHANGED <<plugin, ld_cache, scan_info, config_, driver_dirs_, drivers_list_,
                 virtual_driver_manager_list_, last_modify_time_sum_,
                 drivers_scan_result_info_, child, rpc, loop>>
  /\ UNCHANGED <<cfgVars, drvVars, tabVars, ldVars, histVars>>

\* the linker cache is rebuilt: its mtime changes
TouchLdCache ==
  /\ rpc = "idle"
  /\ hist.done > 0
  /\ hist.edits < MaxEdits
  /\ ld_cache.exists
  /\ \E t \in MTimes \ {ld_cache.mtime} : ld_cache' = [ld_cache EXCEPT !.mtime = t]
  /\ hist' = Edited
  /\ UNCHANGED <<plugin, fs, scan_info, config_, driver_dirs_, drivers_list_,
                 virtual_driver_manager_list_, last_modify_time_sum_,
                 drivers_scan_result_info_, child, rpc, loop>>
  /\ UNCHANGED <<cfgVars, drvVars, tabVars, ldVars, histVars>>

\* ------------------------------------------------------------------------
\* Callers of the registry: a caller takes a driver of drivers_list_, asks
\* it for a factory and keeps the handle, not the driver
\* ------------------------------------------------------------------------
\* the factory handles of driver d that the registry keeps
Retained(d) ==
  Cardinality({k \in 1..Len(virtual_driver_manager_list_) :
                 virtual_driver_manager_list_[k].obj = d})

\* the factory handles of driver d that callers keep
Held(d) == Outstanding(d) - Retained(d)

\* the Driver objects drivers_list_ holds
Catalogued ==
  {d \in Drivers : \E i \in 1..Len(drivers_list_) : drivers_list_[i].obj = d}

\* a caller calls CreateFactory on a driver it got from the registry
Caller_Create(d) ==
  /\ rpc = "idle"
  /\ d \in Catalogued
  /\ TotalCalls < MaxCalls
  /\ SumOver([e \in Drivers |-> Held(e)], Drivers) < MaxHeld
  /\ rpc' = "caller_run"
  /\ loop' = [loop EXCEPT !.obj = d, !.base = calls[d], !.out = Outstanding(d)]
  /\ UNCHANGED <<plugin, fs, ld_cache, scan_info, config_, driver_dirs_,
                 drivers_list_, virtual_driver_manager_list_,
                 last_modify_time_sum_, drivers_scan_result_info_, child, hist>>
  /\ UNCHANGED <<cfgVars, drvVars, tabVars, ldVars, histVars>>

\* CreateFactory has returned to the caller, with a handle or with nullptr
Caller_Return ==
  /\ rpc = "caller_run"
  /\ calls[loop.obj] > loop.base
  /\ pc[loop.obj] = "idle"
  /\ rpc' = "idle"
  /\ loop' = NoLoop
  /\ UNCHANGED <<plugin, fs, ld_cache, scan_info, config_, driver_dirs_,
                 drivers_list_, virtual_driver_manager_list_,
                 last_modify_time_sum_, drivers_scan_result_info_, child, hist>>
  /\ UNCHANGED <<cfgVars, drvVars, tabVars, ldVars, histVars>>

\* a caller lets go of a factory handle of a driver that is still there
Caller_Release(d) ==
  /\ rpc = "idle"
  /\ d \in Catalogued
  /\ Held(d) > 0
  /\ rpc' = "caller_drop"
  /\ loop' = [loop EXCEPT !.obj = d, !.out = Outstanding(d) - 1]
  /\ UNCHANGED <<plugin, fs, ld_cache, scan_info, config_, driver_dirs_,
                 drivers_list_, virtual_driver_manager_list_,
                 last_modify_time_sum_, drivers_scan_result_info_, child, hist>>
  /\ UNCHANGED <<cfgVars, drvVars, tabVars, ldVars, histVars>>

\* the deleter of the handle has returned
Caller_Dropped ==
  /\ rpc = "caller_drop"
  /\ Outstanding(loop.obj) = loop.out
  /\ pc[loop.obj] = "idle"
  /\ rpc' = "idle"
  /\ loop' = NoLoop
  /\ UNCHANGED <<plugin, fs, ld_cache, scan_info, config_, driver_dirs_,
                 drivers_list_, virtual_driver_manager_list_,
                 last_modify_time_sum_, drivers_scan_result_info_, child, hist>>
  /\ UNCHANGED <<cfgVars, drvVars, tabVars, ldVars, histVars>>

\* ------------------------------------------------------------------------
\* Specification of the registry
\* ------------------------------------------------------------------------
\* VirtualDriverScan is inside driver->CreateFactory() on d and the call has
\* not begun
CreateFactoryCalled(d) ==
  rpc \in {"vds_run", "caller_run"} /\ loop.obj = d /\ calls[d] = loop.base

\* the registry is inside an operation of driver d
InDriver(d) ==
  /\ rpc \in {"vds_run", "vds_drop", "clear_drop", "caller_run", "caller_drop"}
  /\ loop.obj = d

\* the registry has let go of a factory handle of d whose deleter has not
\* run yet
HandleDropped(d) ==
  /\ rpc \in {"vds_drop", "clear_drop", "caller_drop"}
  /\ loop.obj = d
  /\ Outstanding(d) > loop.out

RegInit ==
  /\ plugin \in Worlds
  /\ fs = FsInitial
  /\ ld_cache = [exists |-> TRUE, mtime |-> 1]
  /\ scan_info = NoScanInfo
  /\ RegistryFresh
  /\ desc = [d \in Drivers |-> [file_path |-> "libA", no_delete |-> FALSE]]
  /\ exports = [l \in Libs |-> ExportsOf(plugin[l])]
  /\ DriverFresh

RegNext ==
  \/ \E config \in Configurations : Initialize(config)
  \/ Scan_Check
  \/ Child_ScanDir
  \/ Child_ScanFile
  \/ Child_Write
  \/ Scan_Gather
  \/ VDS_Call
  \/ VDS_Return
  \/ VDS_Dropped
  \/ VDS_Done
  \/ Clear_Erase
  \/ Clear_Manager
  \/ Clear_Dropped
  \/ Clear_Finish
  \/ \E d \in Drivers :
       \/ CreateFactoryCalled(d) /\ CF_Share(d)
       \/ CreateFactoryCalled(d) /\ Fault(d) # "dlopen" /\ CF_DlopenOk(d)
       \/ CreateFactoryCalled(d) /\ Fault(d) = "dlopen" /\ CF_DlopenFail(d)
       \/ InDriver(d) /\ CF_MapLock(d)
       \/ InDriver(d) /\ CF_Add(d)
       \/ InDriver(d) /\ CF_InitLock(d)
       \/ InDriver(d) /\ CF_NoInitSymbol(d)
       \/ InDriver(d) /\ Fault(d) # "init" /\ CF_DriverInitOk(d)
       \/ InDriver(d) /\ Fault(d) = "init" /\ CF_DriverInitFail(d)
       \/ InDriver(d) /\ CF_NoCreateSymbol(d)
       \/ InDriver(d) /\ Fault(d) # "create" /\ CF_CreateOk(d)
       \/ InDriver(d) /\ Fault(d) = "create" /\ CF_CreateNull(d)
       \/ HandleDropped(d) /\ Release(d)
       \/ InDriver(d) /\ CL_MapLock(d)
       \/ InDriver(d) /\ CL_Get(d)
       \/ InDriver(d) /\ CL_InitLock(d)
       \/ InDriver(d) /\ CL_DriverFiniReturn(d)
       \/ InDriver(d) /\ CL_RemoveLock(d)
       \/ InDriver(d) /\ CL_Remove(d)
       \/ InDriver(d) /\ CL_Unlock(d)
       \/ InDriver(d) /\ CL_Dlclose(d)

RegSpec == RegInit /\ [][RegNext]_vars

\* ------------------------------------------------------------------------
\* Specification of the registry with callers that hold factory handles
\* ------------------------------------------------------------------------
\* libB is a plain driver; libA is one too or a virtual-class plugin with
\* any behaviour, asked to stay loaded or not when its factory is a manager
CallerWorlds ==
  {w \in Worlds :
     /\ w["libB"] = Plain("2.0.0", "d")
     /\ w["libA"] \in {Plain("2.0.0", "d"), Virtual("none", TRUE)}
                         \cup {Virtual(f, FALSE) : f \in Faults}}

CallerInit ==
  /\ plugin \in CallerWorlds
  /\ fs = FsInitial
  /\ ld_cache = [exists |-> TRUE, mtime |-> 1]
  /\ scan_info = NoScanInfo
  /\ RegistryFresh
  /\ desc = [d \in Drivers |-> [file_path |-> "libA", no_delete |-> FALSE]]
  /\ exports = [l \in Libs |-> ExportsOf(plugin[l])]
  /\ DriverFresh

\* the registry of the callers is initialised with one configuration
CallerConfigurations ==
  {NoConfig, [dirs |-> <<"dirA">>, skip_default |-> TRUE, null |-> FALSE]}

CallerNext ==
  \/ RegNext /\ config_' \in CallerConfigurations
  \/ \E d \in Drivers : Caller_Create(d) \/ Caller_Release(d)
  \/ Caller_Return
  \/ Caller_Dropped

CallerSpec == CallerInit /\ [][CallerNext]_vars

\* ------------------------------------------------------------------------
\* Specification of the scan cache: two plain libraries, a linker cache and
\* a cache file that may be missing or not writable, and a filesystem that
\* changes between the scans
\* ------------------------------------------------------------------------
CacheInit ==
  /\ plugin = [l \in Libs |-> Plain(IF l = "libA" THEN "2.0.0" ELSE "10.0.0", "d")]
  /\ fs = FsInitial
  /\ ld_cache \in [exists : BOOLEAN, mtime : {1}]
  /\ scan_info \in {[NoScanInfo EXCEPT !.writable = w] : w \in BOOLEAN}
  /\ RegistryFresh
  /\ desc = [d \in Drivers |-> [file_path |-> "libA", no_delete |-> FALSE]]
  /\ exports = [l \in Libs |-> ExportsOf(plugin[l])]
  /\ DriverFresh

CacheNext ==
  \/ \E config \in Configurations : Initialize(config)
  \/ Scan_Check
  \/ Child_ScanDir
  \/ Child_ScanFile
  \/ Child_Write
  \/ Scan_Gather
  \/ VDS_Done
  \/ \E f \in Files : Touch(f) \/ Remove(f) \/ Create(f)
  \/ TouchLdCache

CacheSpec == CacheInit /\ [][CacheNext]_vars

\* ------------------------------------------------------------------------
\* Specification of the version field: a DriverDesc is given any string as
\* its version, again and again
\* ------------------------------------------------------------------------
\* the characters the strings are made of: '1', '.' and 'a'
VersionChars == {49, 46, 97}

\* every string of these up to MaxVersionLen characters, and every string
\* of '1' and '.' one character longer
VersionStrings ==
  UNION {[1..n -> VersionChars] : n \in 0..MaxVersionLen}
    \cup [1..(MaxVersionLen + 1) -> {49, 46}]

\* DriverDesc::SetVersion called on the descriptor whose driver_version_ the
\* history holds, as characters
SetVersionCalled(version) ==
  /\ rpc = "idle"
  /\ hist.version.sets < MaxSets
  /\ hist' = [hist EXCEPT !.version =
       IF version = <<>>
       THEN [valid |-> TRUE, driver_version_ |-> @.driver_version_,
             before |-> @.driver_version_, arg |-> version,
             status |-> "STATUS_SUCCESS", sets |-> @.sets + 1]
       ELSE IF ~CheckVersionChars(version)
       THEN [valid |-> TRUE, driver_version_ |-> @.driver_version_,
             before |-> @.driver_version_, arg |-> version,
             status |-> "STATUS_BADCONF", sets |-> @.sets + 1]
       ELSE [valid |-> TRUE, driver_version_ |-> version,
             before |-> @.driver_version_, arg |-> version,
             status |-> "STATUS_SUCCESS", sets |-> @.sets + 1]]
  /\ UNCHANGED <<plugin, fs, ld_cache, scan_info, config_, driver_dirs_,
                 drivers_list_, virtual_driver_manager_list_,
                 last_modify_time_sum_, drivers_scan_result_info_, child, rpc,
                 loop>>
  /\ UNCHANGED <<cfgVars, drvVars, tabVars, ldVars, histVars>>

VersionInit ==
  /\ plugin = [l \in Libs |-> Plain("2.0.0", "d")]
  /\ fs = FsInitial
  /\ ld_cache = [exists |-> TRUE, mtime |-> 1]
  /\ scan_info = NoScanInfo
  /\ RegistryFresh
  /\ desc = [d \in Drivers |-> [file_path |-> "libA", no_delete |-> FALSE]]
  /\ exports = [l \in Libs |-> Symbols]
  /\ DriverFresh

VersionNext == \E version \in VersionStrings : SetVersionCalled(version)

VersionSpec == VersionInit /\ [][VersionNext]_vars

\* ------------------------------------------------------------------------
\* Specification of the GetDriver query: a registry holding any list of
\* drivers is asked for a driver
\* ------------------------------------------------------------------------
\* the versions drivers carry and the versions asked for
ListVersions == {"2.0.0", "10.0.0"}
QueryVersions == ListVersions \cup {"", "1.0.0"}
\* class, type and name of the drivers considered
Identities ==
  {<<"cpu", "x", "foo">>, <<"gpu", "x", "foo">>, <<"cpu", "y", "foo">>,
   <<"cpu", "x", "bar">>}

QueryDrivers ==
  {[class |-> id[1], type |-> id[2], name |-> id[3], version |-> v,
    description |-> "d", file_path |-> "", no_delete |-> FALSE,
    is_virtual |-> FALSE, obj |-> None] : id \in Identities, v \in ListVersions}

QueryLists == UNION {[1..n -> QueryDrivers] : n \in 0..MaxLen}

\* a caller asks the registry for a driver
GetDriverCalled(driver_class, driver_type, driver_name, driver_version) ==
  /\ rpc = "idle"
  /\ hist' = [hist EXCEPT !.query =
       [valid |-> TRUE, class |-> driver_class, type |-> driver_type,
        name |-> driver_name, version |-> driver_version,
        result |-> GetDriver(drivers_list_, driver_class, driver_type,
                             driver_name, driver_version)]]
  /\ UNCHANGED <<plugin, fs, ld_cache, scan_info, config_, driver_dirs_,
                 drivers_list_, virtual_driver_manager_list_,
                 last_modify_time_sum_, drivers_scan_result_info_, child, rpc,
                 loop>>
  /\ UNCHANGED <<cfgVars, drvVars, tabVars, ldVars, histVars>>

QueryInit ==
  /\ plugin = [l \in Libs |-> Plain("2.0.0", "d")]
  /\ fs = FsInitial
  /\ ld_cache = [exists |-> TRUE, mtime |-> 1]
  /\ scan_info = NoScanInfo
  /\ config_ = NoConfig
  /\ driver_dirs_ = <<>>
  /\ drivers_list_ \in QueryLists
  /\ virtual_driver_manager_list_ = <<>>
  /\ last_modify_time_sum_ = 0
  /\ drivers_scan_result_info_ = [success |-> <<>>, failed |-> NoFailed]
  /\ child = NoChild
  /\ rpc = "idle"
  /\ loop = NoLoop
  /\ hist = NoHist
  /\ desc = [d \in Drivers |-> [file_path |-> "libA", no_delete |-> FALSE]]
  /\ exports = [l \in Libs |-> Symbols]
  /\ DriverFresh

QueryNext ==
  \E id \in Identities, v \in QueryVersions :
    GetDriverCalled(id[1], id[2], id[3], v)

QuerySpec == QueryInit /\ [][QueryNext]_vars

\* ------------------------------------------------------------------------
\* Specification
\* ------------------------------------------------------------------------
Next ==
  \E d \in Drivers :
    \/ CF_Share(d)
    \/ CF_DlopenOk(d)
    \/ CF_DlopenFail(d)
    \/ CF_MapLock(d)
    \/ CF_Add(d)
    \/ CF_InitLock(d)
    \/ CF_NoInitSymbol(d)
    \/ CF_DriverInitOk(d)
    \/ CF_DriverInitFail(d)
    \/ CF_NoCreateSymbol(d)
    \/ CF_CreateOk(d)
    \/ CF_CreateNull(d)
    \/ Release(d)
    \/ CL_MapLock(d)
    \/ CL_Get(d)
    \/ CL_InitLock(d)
    \/ CL_DriverFiniReturn(d)
    \/ CL_RemoveLock(d)
    \/ CL_Remove(d)
    \/ CL_Unlock(d)
    \/ CL_Dlclose(d)

Spec == Init /\ [][Next]_vars

\* ------------------------------------------------------------------------
\* Specification with scheduling: a thread inside CreateFactory or
\* CloseFactory goes on whenever it can, which includes that dlopen, dlsym,
\* dlclose and the entrypoints of the plugin return; calls are started or
\* not
\* ------------------------------------------------------------------------
Step(d) == Next /\ pc[d] # "idle" /\ pc'[d] # pc[d]

\* the two drivers are backed by one library, so that they meet at one
\* entry of the handle table
LiveInit ==
  /\ desc \in {c \in Catalogues : c["d2"].file_path = "libA"}
  /\ exports \in ExportSets
  /\ DriverFresh
  /\ plugin = [l \in Libs |-> Plain("2.0.0", "d")]
  /\ fs = FsInitial
  /\ ld_cache = [exists |-> TRUE, mtime |-> 1]
  /\ scan_info = NoScanInfo
  /\ RegistryFresh

LiveSpec == LiveInit /\ [][Next]_vars /\ \A d \in Drivers : WF_vars(Step(d))

TypeOK ==
  /\ pc \in [Drivers -> {"idle", "cf_maplock", "cf_add", "cf_initlock",
                         "cf_driver_init", "cf_create", "cl_maplock",
                         "cl_get", "cl_initlock", "cl_driver_fini", "cl_rm_maplock",
                         "cl_remove", "cl_unlock", "cl_dlclose", "crash"}]
  /\ factory_count_ \in [Drivers -> Int]
  /\ driver_handler_ \in [Drivers -> Addrs \cup {Null}]
  /\ factory_ \in [Drivers -> FactoryIds]
  /\ handler_map \in [Addrs -> EntryIds \cup {Null}]
  /\ handler_map_lock \in Drivers \cup {None}
  /\ FreeEntries # {}

\* ------------------------------------------------------------------------
\* Properties
\* ------------------------------------------------------------------------
SameFile(d, e) == GetDriverFile(d) = GetDriverFile(e)

\* every driver is between operations and holds no factory
Quiescent == \A d \in Drivers : pc[d] = "idle" /\ factory_count_[d] = 0

\* the plugin entrypoint a driver is executing, if any
InEntrypoint(d) == pc[d] \in {"cf_driver_init", "cl_driver_fini"}

\* C1: whenever no CreateFactory/CloseFactory is in progress on a driver,
\* its factory reference count R is >= 0, R = 0 implies that the library
\* handle and the factory slot are both empty, and R > 0 implies that both
\* are set.
C1_RefcountInvariant ==
  \A d \in Drivers :
    pc[d] = "idle" =>
      /\ factory_count_[d] >= 0
      /\ factory_count_[d] = 0 => (driver_handler_[d] = Null /\ factory_[d] = Null)
      /\ factory_count_[d] > 0 => (driver_handler_[d] # Null /\ factory_[d] # Null)

\* C1 witness: one driver rests with two references on a live factory while
\* another one rests after a CreateFactory that failed past dlopen.
C1_Witness ==
  \E d, e \in Drivers :
    /\ d # e
    /\ pc[d] = "idle" /\ factory_count_[d] = 2 /\ driver_handler_[d] # Null
    /\ pc[e] = "idle" /\ factory_count_[e] = 0 /\ ~everSucc[e]
    /\ lastHandle[e] # Null

\* C2: a CreateFactory call that fails leaves the driver's R, the handle's
\* init_refcount and the HandleTable as they were before the call, and the
\* driver's handle and factory slot empty.  Stated for the calls made from
\* the initial state on drivers that are not no_delete: as long as every
\* call made so far has failed and returned, the table is empty as it was
\* initially and every driver is unloaded.
C2_FailedCreateUnwinds ==
  (\A d \in Drivers :
     /\ pc[d] = "idle"
     /\ ~everSucc[d]
     /\ calls[d] > 0 => ~GetNoDelete(d))
  => /\ \A a \in Addrs : handler_map[a] = Null
     /\ \A d \in Drivers :
          /\ factory_count_[d] = 0
          /\ driver_handler_[d] = Null
          /\ factory_[d] = Null

\* C3: whenever a driver is at the point of invoking the plugin's
\* CreateDriverFactory, DriverInit has been invoked successfully on that
\* library and DriverFini has not been invoked on it since.
C3_InitBeforeCreateDriverFactory ==
  \A d \in Drivers :
    (pc[d] = "cf_create" /\ Dlsym(d, "CreateDriverFactory"))
      => plugInit[GetDriverFile(d)] >= 1

\* C4: while the HandleTable holds an entry for a handle, DriverInit is
\* invoked at most once and DriverFini at most once on it, and DriverFini
\* only by a driver whose no_delete is false.  Of the DriverInit calls only
\* those that return success are counted, and the counts are stated for
\* the runs in which the operations of different drivers do not overlap.
C4_InitFiniOncePerInterval ==
  /\ ~overlapped =>
       \A a \in Addrs : initsInInterval[a] <= 1 /\ finisInInterval[a] <= 1
  /\ \A d \in Drivers : pc[d] = "cl_driver_fini" => ~GetNoDelete(d)

\* C5: every HandleTable entry's init_refcount is >= 0, and when it is > 0
\* (and nobody is updating it) DriverInit has been called exactly once on
\* the library at that handle since the count left 0, with no DriverFini
\* since.
C5_InitRefcountInvariant ==
  \A a \in Addrs :
    handler_map[a] # Null =>
      /\ info[handler_map[a]].initialize_count_ >= 0
      /\ (/\ info[handler_map[a]].initialize_count_ > 0
          /\ info[handler_map[a]].initialize_lock_ = None)
         => \E l \in Libs : libAddr[l] = a /\ plugInit[l] = 1

\* C6: a HandleTable entry is erased exactly when its init_refcount drops to
\* zero in a CloseFactory of a driver whose no_delete is false: every such
\* drop (it leads to the call of Remove) erases the entry, and an entry
\* disappears from the table in no other step.  The first half is stated
\* for the runs in which the operations of different drivers do not
\* overlap.
C6_EntryErasedExactlyOnLastClose ==
  [][/\ \A d \in Drivers :
          (pc[d] = "cl_remove" /\ pc'[d] # "cl_remove" /\ ~overlapped)
            => handler_map'[driver_handler_[d]] = Null
     /\ \A a \in Addrs :
          (handler_map[a] # Null /\ handler_map'[a] = Null)
            => \E d \in Drivers :
                 /\ pc[d] = "cl_remove"
                 /\ driver_handler_[d] = a
                 /\ ~GetNoDelete(d)
                 /\ info[handler_map[a]].initialize_count_ = 0]_vars

\* C7: once a driver's CreateFactory has succeeded n >= 1 times and all n
\* handles are released, its R is 0, its library handle and factory slot are
\* empty, it has called dlclose once per successful dlopen, and - the
\* driver not being no_delete - the HandleTable holds no entry for its
\* handle.  The last part is stated for the moments at which no driver at
\* all holds a factory and no no_delete driver has been used.
C7_BalancedCreateClose ==
  \A d \in Drivers :
    (pc[d] = "idle" /\ everSucc[d] /\ Outstanding(d) = 0) =>
      /\ factory_count_[d] = 0
      /\ driver_handler_[d] = Null
      /\ factory_[d] = Null
      /\ dlBalance[d] = 0
      /\ (Quiescent /\ \A e \in Drivers : calls[e] > 0 => ~GetNoDelete(e))
           => handler_map[lastHandle[d]] = Null

\* C8: for a no_delete driver, after a successful CreateFactory and the last
\* CloseFactory (no driver of the same file holding a factory), the
\* HandleTable still holds the handle's entry with init_refcount 1,
\* DriverInit has run exactly once on the library and DriverFini never.
\* Stated for the runs in which only drivers of that file are used.
C8_NoDeletePinned ==
  \A d \in Drivers :
    (/\ GetNoDelete(d)
     /\ everSucc[d]
     /\ \A e \in Drivers :
          IF SameFile(d, e)
          THEN pc[e] = "idle" /\ factory_count_[e] = 0
          ELSE calls[e] = 0)
    => /\ handler_map[lastHandle[d]] # Null
       /\ info[handler_map[lastHandle[d]]].initialize_count_ = 1
       /\ plugInit[GetDriverFile(d)] = 1
       /\ finisInInterval[lastHandle[d]] = 0

\* C9: on each driver all outstanding handles refer to the driver's one
\* factory, R equals the number of handles handed out and not yet released,
\* CreateDriverFactory has been invoked exactly once since R left 0, and the
\* factory slot and the library handle are cleared only when no handle is
\* outstanding any more.
C9_SharedFactory ==
  /\ [](\A d \in Drivers :
          /\ \A f \in FactoryIds :
               handles[d][f] > 0 => (f = factory_[d] /\ f # Null)
          /\ pc[d] = "idle" =>
               /\ Outstanding(d) = factory_count_[d]
               /\ factory_count_[d] > 0 => cdfCalls[d] = 1)
  /\ [][\A d \in Drivers :
          (\/ (factory_[d] # Null /\ factory_'[d] = Null)
           \/ (driver_handler_[d] # Null /\ driver_handler_'[d] = Null))
            => Outstanding(d)' = 0]_vars

\* C9 witness: a driver rests with two outstanding handles on its factory
\* after an earlier handle was created and released.
C9_Witness ==
  \E d \in Drivers :
    /\ pc[d] = "idle"
    /\ factory_count_[d] = 2
    /\ Outstanding(d) = 2
    /\ calls[d] = 3

\* C10: DriverInit and DriverFini of one library are never executing at
\* the same time in two drivers backed by it.
C10_InitFiniSerialized ==
  \A d, e \in Drivers :
    (d # e /\ SameFile(d, e)) => ~(InEntrypoint(d) /\ InEntrypoint(e))

\* C10 witness: one driver executes DriverFini while another driver of the
\* same library waits for the entry's initialize_lock_ before DriverInit.
C10_Witness ==
  \E d, e \in Drivers :
    /\ d # e /\ SameFile(d, e)
    /\ pc[d] = "cl_driver_fini"
    /\ pc[e] = "cf_initlock"
    /\ handler_info[e] = driver_handler_info[d]
    /\ info[handler_info[e]].initialize_count_ = 0

\* ------------------------------------------------------------------------
\* Properties of the registry
\* ------------------------------------------------------------------------
\* the identity tuple of a driver
Identity(driver) ==
  <<driver.class, driver.type, driver.name, driver.version, driver.description>>

\* Scan() has returned STATUS_OK at least once and the registry is between
\* two operations
Scanned == rpc = "idle" /\ hist.done > 0 /\ ~hist.cleared

\* C11: after Scan completes, a first one or one repeated on the same
\* registry, and with the drivers the virtual-driver phase appended,
\* drivers_list_ holds no two drivers with the same identity tuple (class,
\* type, name, version, description).
C11_NoTwoDriversWithOneIdentity ==
  Scanned =>
    \A i, j \in 1..Len(drivers_list_) :
      i # j => Identity(drivers_list_[i]) # Identity(drivers_list_[j])

\* what the cache keeps of a driver: identity tuple, description, file path
\* and load flags
Descriptor(driver) ==
  [class |-> driver.class, type |-> driver.type, name |-> driver.name,
   version |-> driver.version, description |-> driver.description,
   file_path |-> driver.file_path, no_delete |-> driver.no_delete]

DescriptorSet(list) == {Descriptor(list[i]) : i \in 1..Len(list)}

\* C12: for a drivers_list_ built by Add, WriteScanInfo followed by
\* GatherScanInfo into an empty registry gives a drivers_list_ whose set of
\* descriptors is the set that was written; no successful entry is lost,
\* also not one that differs from another only in version or description.
C12_CacheRoundTrip ==
  hist.roundtrip.valid =>
    DescriptorSet(hist.roundtrip.read) = DescriptorSet(hist.walk.written)

\* Scan() has returned STATUS_OK since Initialize, the two libraries are
\* both in a scanned directory and carry the versions 2.0.0 and
\* 10.0.0 of one class, type and name
TwoVersionsScanned ==
  /\ rpc = "idle"
  /\ hist.succ > 0
  /\ \E i \in 1..Len(driver_dirs_) : driver_dirs_[i] = "dirA"
  /\ plugin["libA"].class = plugin["libB"].class
  /\ {plugin["libA"].version, plugin["libB"].version} = {"2.0.0", "10.0.0"}

\* C13: with two plugins of one class, type and name and the versions 2.0.0
\* and 10.0.0 in the scanned directories, in either file order, after Scan
\* GetDriver without a version returns the driver of version 2.0.0 and
\* GetDriver with version 10.0.0 returns the driver of version 10.0.0.
C13_GreatestAndExactVersion ==
  TwoVersionsScanned =>
    LET any == GetDriver(drivers_list_, "cpu", "x", "foo", "")
        exact == GetDriver(drivers_list_, "cpu", "x", "foo", "10.0.0")
    IN  /\ any # Null
        /\ drivers_list_[any].version = "2.0.0"
        /\ exact # Null
        /\ drivers_list_[exact].version = "10.0.0"

\* the positions of the drivers of list with a class, type and name
Matches(list, driver_class, driver_type, driver_name) ==
  {i \in 1..Len(list) : /\ list[i].class = driver_class
                        /\ list[i].type = driver_type
                        /\ list[i].name = driver_name}

\* C14: for every drivers_list_ and every query (c, t, n, v) GetDriver
\* returns none iff no driver has class c, type t and name n; otherwise it
\* returns a driver of that class, type and name, of version v if there is
\* one, and else the one whose version string is the greatest
\* lexicographically, the earliest in the list when several carry that
\* greatest version.
C14_GetDriver ==
  hist.query.valid =>
    LET q == hist.query
        list == drivers_list_
        matches == Matches(list, q.class, q.type, q.name)
    IN  /\ q.result = Null <=> matches = {}
        /\ q.result # Null =>
             /\ q.result \in matches
             /\ IF \E i \in matches : list[i].version = q.version
                THEN list[q.result].version = q.version
                ELSE \A i \in matches :
                       /\ ~StringLess(list[q.result].version, list[i].version)
                       /\ list[i].version = list[q.result].version
                            => q.result <= i

\* a query without an exact match on a list where the greatest version is
\* carried by two drivers, after a driver of a smaller version
C14_Witness ==
  /\ hist.query.valid
  /\ hist.query.version = "1.0.0"
  /\ Len(drivers_list_) = 3
  /\ Matches(drivers_list_, hist.query.class, hist.query.type, hist.query.name)
       = {1, 2, 3}
  /\ drivers_list_[1].version = "10.0.0"
  /\ drivers_list_[2].version = "2.0.0"
  /\ drivers_list_[3].version = "2.0.0"
  /\ hist.query.result = 2

\* the regular files, symbolic links left out, that match the glob under
\* the configured path: the path itself when it is no directory
FilesUnder(path) ==
  IF fs[path].kind = "absent" THEN {}
  ELSE IF fs[path].kind # "dir" THEN {path}
  ELSE {f \in Files : /\ \E k \in 1..Len(Layout[path]) : Layout[path][k] = f
                      /\ fs[f].kind = "file"}

CurrentFiles == UNION {FilesUnder(driver_dirs_[i]) : i \in 1..Len(driver_dirs_)}

\* the sum of the mtimes of the files under the configured paths from
\* position i on, a file counted once for each path it is found under
RECURSIVE CurrentSum(_)
CurrentSum(i) ==
  IF i > Len(driver_dirs_) THEN 0
  ELSE SumOver([f \in Files |-> fs[f].mtime],
               FilesUnder(driver_dirs_[i]) \cap Files) + CurrentSum(i + 1)

\* C15: CheckPathAndMagicCode reports the cache valid iff the cache file
\* exists, the linker cache exists with the mtime the cache recorded, the
\* regular files now matching the glob under the configured directories
\* are exactly the file paths the cache recorded (none new, none missing),
\* and the check code of the current sum of their mtimes is the cached one.
C15_CacheValidIff ==
  rpc = "idle" =>
    (CheckPathAndMagicCode <=>
       /\ scan_info.exists
       /\ ld_cache.exists
       /\ ld_cache.mtime = scan_info.ld_cache_time
       /\ CurrentFiles = FillCheckInfo
       /\ GenerateKey(CurrentSum(1)) = scan_info.check_code)

\* C16: when Scan is called twice in succession with the same configured
\* directories and an unchanged filesystem and linker cache, the walk of
\* the directories by InnerScan runs once: the second Scan finds the cache
\* the first one wrote valid, whatever the configured directories are
\* (existing, empty, missing, or the path of a single file).  Stated for a
\* machine that has a linker cache.
C16_SecondScanDoesNotWalk ==
  rpc = "idle" /\ hist.succ >= 2 /\ ld_cache.exists
    => ~hist.walked /\ hist.succWalks = 1

\* Clear has run and Scan() has returned STATUS_OK since, under the
\* configuration of the first Scan of the fresh registry
RescannedAfterClear ==
  /\ rpc = "idle"
  /\ hist.cleared
  /\ hist.succ > 0
  /\ hist.first.valid
  /\ config_ = hist.first.config

\* C17: with an unchanged filesystem and configuration, Clear followed by
\* Initialize and Scan leaves drivers_list_ with the catalogue that
\* Initialize and Scan gave on the fresh registry: the same sequence of
\* driver descriptors, the same virtual drivers, the same number of
\* retained virtual managers.
C17_SameCatalogueAfterClear ==
  RescannedAfterClear =>
    /\ Descriptors(drivers_list_) = hist.first.list
    /\ Len(virtual_driver_manager_list_) = hist.first.managers

\* C18: Add(file) either succeeds and appends exactly one driver, carrying
\* file as its file path, to the end of drivers_list_, or returns an error
\* (the library cannot be opened, DriverDescription is not exported, or a
\* driver of the same class, type, name, version and description is there
\* already, which is reported as already-exists) and leaves drivers_list_
\* as it was; in both cases every library handle Add opened is closed when
\* it returns.
C18_Add ==
  hist.add.valid =>
    LET a == hist.add
        n == Len(a.before)
        present == /\ Loadable(a.file)
                   /\ HasDriverDescription(a.file)
                   /\ \E i \in 1..n :
                        Identity(a.before[i]) = Identity(DriverDescription(a.file))
    IN  /\ a.opened = a.closed
        /\ a.status \in {"STATUS_OK", "STATUS_INVALID", "STATUS_NOTSUPPORT",
                          "STATUS_EXIST"}
        /\ a.status = "STATUS_INVALID" <=> ~Loadable(a.file)
        /\ a.status = "STATUS_NOTSUPPORT"
             <=> Loadable(a.file) /\ ~HasDriverDescription(a.file)
        /\ a.status = "STATUS_EXIST" <=> present
        /\ IF a.status = "STATUS_OK"
           THEN /\ Len(a.after) = n + 1
                /\ SubSeq(a.after, 1, n) = a.before
                /\ a.after[n + 1].file_path = a.file
                /\ Identity(a.after[n + 1]) = Identity(DriverDescription(a.file))
           ELSE a.after = a.before

\* Add has refused a library whose driver is in the list already, and has
\* closed the handle it opened
C18_Witness ==
  /\ hist.add.valid
  /\ hist.add.status = "STATUS_EXIST"
  /\ hist.add.before # <<>>
  /\ hist.add.after = hist.add.before
  /\ hist.add.opened = 1
  /\ hist.add.closed = 1

\* the files the walk has to hand to Add for the configured paths from
\* position i on: a path that is no directory, and every entry of a
\* directory that is there and is no symbolic link
RECURSIVE Candidates(_)
Candidates(i) ==
  LET path == driver_dirs_[i]
      Regular(f) == fs[f].kind = "file"
  IN  IF i > Len(driver_dirs_) THEN <<>>
      ELSE (IF fs[path].kind = "absent" THEN <<>>
            ELSE IF fs[path].kind # "dir" THEN <<path>>
            ELSE SelectSeq(Layout[path], Regular)) \o Candidates(i + 1)

\* the helper has written the cache file and the parent has not read it yet
WalkDone == rpc = "gather" /\ hist.walked

\* C19: in the walk a failing file or directory never stops the walk:
\* every later candidate that is no symbolic link and every later
\* configured directory is still processed, each failing file is in the
\* failure bucket under its path with its error message, each succeeding
\* file is in the success list, and InnerScan returns success whenever the
\* cache file is written.
C19_WalkContinues ==
  WalkDone =>
    LET processed == hist.processed
        w == hist.walk
    IN  /\ [k \in 1..Len(processed) |-> processed[k].file] = Candidates(1)
        /\ \A k \in 1..Len(processed) :
             IF processed[k].status = "STATUS_OK"
             THEN \E j \in 1..Len(w.success) : w.success[j] = processed[k].file
             ELSE /\ w.failed[processed[k].file] # ""
                  /\ (\A j \in 1..(k - 1) :
                        processed[j].file = processed[k].file
                          => processed[j].status = "STATUS_OK")
                       => w.failed[processed[k].file] = processed[k].msg
        /\ scan_info.exists
        /\ hist.status = "STATUS_OK"

\* a walk in which the first file failed to load, a later library was
\* added, a library without DriverDescription failed after it, and a
\* missing directory came before the directory holding them
C19_Witness ==
  /\ WalkDone
  /\ driver_dirs_ = <<"dirM", "dirA">>
  /\ Len(hist.processed) = 4
  /\ hist.processed[1].status = "STATUS_INVALID"
  /\ hist.processed[2].status = "STATUS_OK"
  /\ hist.processed[4].status = "STATUS_NOTSUPPORT"
  /\ hist.walk.failed["bad"] = "dlopen failed"
  /\ hist.walk.failed["nodesc"] = "dlsym DriverDescription failed"

\* the drivers of class virtual in drivers_list_ whose CreateFactory has
\* returned a factory that is a VirtualDriverManager
ManagerDrivers ==
  {d \in Drivers :
     /\ \E i \in 1..Len(drivers_list_) :
          /\ drivers_list_[i].obj = d
          /\ drivers_list_[i].class = DRIVER_CLASS_VIRTUAL
     /\ everSucc[d]
     /\ Fault(d) # "notmanager"}

\* C20: after Scan, for every driver of class virtual whose CreateFactory
\* succeeded with a VirtualDriverManager, every sub-driver the manager
\* produced is in drivers_list_ with is_virtual = true and the manager is
\* kept in virtual_driver_manager_list_; the factory handle being kept,
\* that driver stays active (factory_count_ >= 1) until the manager list
\* is cleared.
C20_ManagerRetained ==
  /\ Scanned =>
       \A d \in ManagerDrivers :
         /\ \E k \in 1..Len(virtual_driver_manager_list_) :
              virtual_driver_manager_list_[k].obj = d
         /\ \A j \in 1..Len(SubDrivers) :
              \E i \in 1..Len(drivers_list_) :
                /\ Identity(drivers_list_[i]) = Identity(SubDrivers[j])
                /\ drivers_list_[i].is_virtual
  /\ \A k \in 1..Len(virtual_driver_manager_list_) :
       /\ factory_count_[virtual_driver_manager_list_[k].obj] >= 1
       /\ factory_[virtual_driver_manager_list_[k].obj]
            = virtual_driver_manager_list_[k].factory

\* Scan has returned on a registry that keeps one manager, whose driver
\* has one factory handle out and whose two sub-drivers are in the list
C20_Witness ==
  /\ Scanned
  /\ ManagerDrivers # {}
  /\ Len(virtual_driver_manager_list_) = 1
  /\ factory_count_[virtual_driver_manager_list_[1].obj] = 1
  /\ Len(drivers_list_) = 2 + Len(SubDrivers)
  /\ drivers_list_[Len(drivers_list_)].is_virtual

\* splitting the string on '.' gives exactly three components, none empty,
\* each made of decimal digits only
ThreeNumbers(version) ==
  \E i, j \in 1..Len(version) :
    /\ 1 < i
    /\ i + 1 < j
    /\ j < Len(version)
    /\ version[i] = 46
    /\ version[j] = 46
    /\ \A k \in 1..Len(version) : k \notin {i, j} => IsDigit(version[k])

\* C23: SetVersion(v) for a non-empty v succeeds and stores v iff splitting
\* v on '.' gives exactly three non-empty components of decimal digits; for
\* every other non-empty v (1.2, 1.2.3.4, 1.2.a, an empty component as in
\* 1..2, a trailing '.' as in 1.2.3.) it fails with a configuration error
\* and leaves the stored version as it was.
C23_SetVersionThreeNumbers ==
  hist.version.valid /\ hist.version.arg # <<>> =>
    LET v == hist.version
    IN  IF ThreeNumbers(v.arg)
        THEN v.status = "STATUS_SUCCESS" /\ v.driver_version_ = v.arg
        ELSE v.status = "STATUS_BADCONF" /\ v.driver_version_ = v.before

\* C25: SetVersion("") succeeds and leaves the version field empty:
\* GetVersion is the empty string after it returned success, whatever
\* version the descriptor held before the call.
C25_SetVersionEmpty ==
  hist.version.valid /\ hist.version.arg = <<>> =>
    /\ hist.version.status = "STATUS_SUCCESS"
    /\ hist.version.driver_version_ = <<>>

\* ------------------------------------------------------------------------
\* Clear and the factories that are still held
\* ------------------------------------------------------------------------
\* Clear is at the point where drivers_list_ gives up its drivers
ListDropped ==
  /\ rpc = "clear_managers"
  /\ virtual_driver_manager_list_ = <<>>
  /\ rpc' # rpc

\* C21: Clear releases no factory a caller holds: when drivers_list_ gives
\* up its drivers, the handles of the callers are what they were; the
\* process aborts if a driver of the list has a factory count above 0, which
\* is the case whenever a caller holds a handle of a driver of the list, and
\* it does not abort if every driver of the list has the count 0.
C21_ClearAbortsOnHeldFactory ==
  [][ListDropped =>
       /\ handles' = handles
       /\ factory_count_' = factory_count_
       /\ (\E d \in Catalogued : factory_count_[d] > 0) => rpc' = "abort"
       /\ (\E d \in Catalogued : Held(d) > 0) => rpc' = "abort"
       /\ (\A d \in Catalogued : factory_count_[d] = 0) => rpc' = "idle"]_vars

C21_Witness ==
  /\ rpc = "abort"
  /\ \E d \in Catalogued : Held(d) > 0 /\ factory_count_[d] > 0
  /\ virtual_driver_manager_list_ = <<>>

\* C22: Clear comes to its end for every drivers_list_: its first step takes
\* the virtual drivers out of the list while the other drivers and the
\* managers are still there, and its last step leaves drivers_list_,
\* virtual_driver_manager_list_ and driver_dirs_ empty, config_ unset and
\* last_modify_time_sum_ 0.
C22_ClearEmptiesAll ==
  [][(Clear_Erase =>
        (/\ rpc' = "clear_managers"
         /\ drivers_list_' = EraseVirtual(drivers_list_)
         /\ virtual_driver_manager_list_' = virtual_driver_manager_list_))
     /\ (ListDropped =>
           (/\ rpc' = "idle"
            /\ drivers_list_' = <<>>
            /\ virtual_driver_manager_list_' = <<>>
            /\ driver_dirs_' = <<>>
            /\ config_' = NoConfig
            /\ last_modify_time_sum_' = 0))]_vars

\* C30: with no holder of factory handles but the registry, Clear never
\* aborts: when drivers_list_ gives up its drivers, the handles of the
\* managers have been released and every driver of the list has the factory
\* count 0 again, whatever Initialize, Scan and Clear calls came before.
C30_ClearDoesNotAbort ==
  /\ rpc # "abort"
  /\ (rpc = "clear_managers" /\ virtual_driver_manager_list_ = <<>>) =>
       \A d \in Catalogued : factory_count_[d] = 0 /\ Outstanding(d) = 0

C30_Witness ==
  /\ rpc = "clear_managers"
  /\ virtual_driver_manager_list_ = <<>>
  /\ hist.clears = 1
  /\ \E d \in Catalogued :
       /\ drivers_list_[1].obj = d
       /\ drivers_list_[1].class = DRIVER_CLASS_VIRTUAL
       /\ everSucc[d]
       /\ calls[d] > 0
       /\ factory_count_[d] = 0

\* ------------------------------------------------------------------------
\* Locks
\* ------------------------------------------------------------------------
\* C24: the lock of the handle table is held only by a driver that is about
\* to do one lookup, Add or Remove on the map: no driver holds it while it
\* is in dlopen, dlsym, DriverInit, CreateDriverFactory, DriverFini or
\* dlclose, or while it waits for the initialize_lock_ of an entry.
C24_TableLockOnlyAroundMap ==
  \A d \in Drivers :
    /\ handler_map_lock = d => pc[d] \in {"cf_add", "cl_get", "cl_remove"}
    /\ pc[d] \in {"idle", "cf_maplock", "cf_initlock", "cf_driver_init",
                  "cf_create", "cl_maplock", "cl_initlock", "cl_driver_fini",
                  "cl_rm_maplock", "cl_unlock", "cl_dlclose"}
         => handler_map_lock # d

C24_Witness ==
  \E d, e \in Drivers :
    /\ pc[d] = "cf_driver_init"
    /\ handler_map_lock = e
    /\ pc[e] = "cf_add"
    /\ driver_handler_[e] # driver_handler_[d]

\* a driver is active on handle h: it holds h open with a live factory and
\* a factory count above 0
Active(e, h) ==
  /\ driver_handler_[e] = h
  /\ h # Null
  /\ factory_count_[e] > 0
  /\ factory_[e] # Null

\* C26: while a driver executes DriverFini on a library handle, no other
\* driver is active on that handle.
C26_NoFiniWhileActive ==
  \A d \in Drivers :
    pc[d] = "cl_driver_fini" =>
      \A e \in Drivers \ {d} : ~Active(e, driver_handler_[d])

\* C27: the lookup CloseFactory makes for the handle of its driver finds an
\* entry, and Remove is called only for a handle that has an entry: the
\* null entry of line 69, dereferenced at line 75 or inside Remove, does
\* not occur.
C27_EntryFound ==
  \A d \in Drivers :
    /\ pc[d] # "crash"
    /\ pc[d] = "cl_initlock" => driver_handler_info[d] # Null
    /\ pc[d] = "cl_remove" => Get(driver_handler_[d]) # Null

C27_Witness ==
  \E d, e \in Drivers :
    /\ d # e
    /\ pc[d] = "cl_remove"
    /\ Get(driver_handler_[d]) # Null
    /\ driver_handler_[e] = driver_handler_[d]
    /\ pc[e] = "cl_initlock"
    /\ driver_handler_info[e] = Get(driver_handler_[d])

\* the drivers that hold library handle a open
Holders(a) == {d \in Drivers : driver_handler_[d] = a}

\* C29: the handler_count_ of the entry of a handle is the number of drivers
\* that hold the handle open, whenever no driver is inside CreateFactory or
\* CloseFactory; a handle nobody holds has no entry.
C29_HandlerCountIsHolders ==
  (\A d \in Drivers : pc[d] = "idle") =>
    \A a \in Addrs :
      IF Get(a) = Null THEN Holders(a) = {}
      ELSE info[Get(a)].handler_count_ = Cardinality(Holders(a))

\* driver d holds none of the locks: mutex_ of the driver is held exactly
\* while the driver is inside an operation
HoldsNoLock(d) ==
  /\ pc[d] = "idle"
  /\ handler_map_lock # d
  /\ \A e \in EntryIds : info[e].initialize_lock_ # d

InPass == rpc \in {"vds", "vds_run", "vds_drop"}

\* the drivers of class virtual that were in drivers_list_ when the pass began
PassVirtual == GetDriverListByClass(hist.pass, DRIVER_CLASS_VIRTUAL)

\* what holds at every point of a pass
PassOK ==
  InPass =>
    /\ Len(drivers_list_) >= Len(hist.pass)
    /\ SubSeq(drivers_list_, 1, Len(hist.pass)) = hist.pass
    /\ \A i \in (Len(hist.pass) + 1)..Len(drivers_list_) : drivers_list_[i].is_virtual
    /\ Len(hist.asked) <= Len(PassVirtual)
    /\ hist.asked = SubSeq(PassVirtual, 1, Len(hist.asked))
    /\ \A k \in 1..Len(hist.asked) : hist.asked[k] <= Len(hist.pass)
    /\ rpc = "vds" =>
         \A k \in 1..Len(hist.asked) :
           LET d == drivers_list_[hist.asked[k]].obj
           IN  d # None => factory_count_[d] = Retained(d)

\* C31: VirtualDriverScan is one pass over the drivers of class virtual that
\* were in drivers_list_ when it began: during the pass the list it began
\* with stays the head of drivers_list_, every driver asked for a factory is
\* one of that list and none is asked twice, a driver a manager appended is
\* not asked in the same Scan, a driver whose factory is not kept as a
\* manager has its factory count back at what the managers hold, 0 if none,
\* and the pass ends having asked each of those drivers and returns success.
C31_VirtualScanSinglePass ==
  /\ []PassOK
  /\ [][(rpc = "vds" /\ rpc' = "idle") =>
          /\ hist.asked = PassVirtual
          /\ hist'.status = "STATUS_OK"
          /\ drivers_list_' = drivers_list_]_vars

C31_Witness ==
  /\ rpc = "vds"
  /\ loop.todo = <<>>
  /\ hist.scans = 2
  /\ Len(hist.asked) = 2
  /\ drivers_list_[hist.asked[2]].is_virtual
  /\ Len(drivers_list_) > Len(hist.pass)
  /\ \E i \in (Len(hist.pass) + 1)..Len(drivers_list_) :
       drivers_list_[i].class = DRIVER_CLASS_VIRTUAL


====
